---------------------------- MODULE Spec2Model ----------------------------
(***************************************************************************)
(* Model of the binned-likelihood fit engine of scripts/fit_helpers.py:    *)
(* signal_amplitudes, bb_objective_aux and the class FitData (parameter    *)
(* table, fit tensor, mixture_model, objective).                           *)
(*                                                                         *)
(* Numbers.  The program computes in IEEE doubles.  The model computes in  *)
(* decimal fixed point: a finite real x is the integer floor(x * Unit),    *)
(* every product and quotient is rounded down to that grid, and the three  *)
(* non-finite doubles are kept as values of their own, so that division by *)
(* zero, inf - inf and comparisons with NaN behave as they do in numpy.    *)
(* Branching-fraction products (signal_amplitudes) carry six decimals      *)
(* (AmpUnit), so that a product of four fractions does not round to zero.  *)
(* The sign of a zero is not modelled: a zero divides as +0.0.             *)
(***************************************************************************)
EXTENDS Integers, Sequences, FiniteSets, TLC

VARIABLES
    parameters,   \* self._parameters: the rows of data/model_parameters.csv
    npoi,         \* self._npoi
    nnorm,        \* self._nnorm
    nshape,       \* self._nshape
    pval_init,    \* self._pval_init
    perr_init,    \* self._perr_init
    ww_amp_init,  \* self._ww_amp_init
    w_amp_init,   \* self._w_amp_init
    veto_list,    \* self.veto_list
    categories,   \* self._categories, in insertion order of self._model_data
    model_data,   \* self._model_data: category -> data, model, masks
    bin_np,       \* self._bin_np: category -> Barlow-Beeston scale per bin
    rnum_cache,   \* self._rnum_cache: category -> normal draw per bin
    cache,        \* self._cache: category -> diagnostics of the last call
    np_cost,      \* self._np_cost
    cost_init,    \* self._cost_init
    call          \* the last call made and what it returned

vars == <<parameters, npoi, nnorm, nshape, pval_init, perr_init, ww_amp_init,
          w_amp_init, veto_list, categories, model_data, bin_np, rnum_cache,
          cache, np_cost, cost_init, call>>

engine == <<parameters, npoi, nnorm, nshape, pval_init, perr_init, ww_amp_init,
            w_amp_init, veto_list, categories, model_data, bin_np, rnum_cache,
            cache, np_cost, cost_init>>

---------------------------------------------------------------------------
(* Fixed-point arithmetic with the non-finite doubles.                     *)

\* Three decimals for every quantity but the amplitudes.
Unit == 10 * 10 * 10
\* Six decimals for branching-fraction products.
AmpUnit == Unit * Unit

F(n)  == [k |-> "fin", v |-> n]
Inf   == [k |-> "inf", v |-> 0]
NInf  == [k |-> "ninf", v |-> 0]
NaN   == [k |-> "nan", v |-> 0]
Zero  == F(0)
One   == F(Unit)

IsFin(x) == x.k = "fin"
IsNaN(x) == x.k = "nan"

\* -1 | 0 | 1 for a value that is not NaN
Sgn(x) ==
    CASE x.k = "inf"  -> 1
      [] x.k = "ninf" -> -1
      [] OTHER        -> IF x.v > 0 THEN 1 ELSE IF x.v < 0 THEN -1 ELSE 0

SignedInf(s) == IF s > 0 THEN Inf ELSE NInf

XNeg(x) ==
    CASE x.k = "fin"  -> F(0 - x.v)
      [] x.k = "inf"  -> NInf
      [] x.k = "ninf" -> Inf
      [] OTHER        -> NaN

XAdd(x, y) ==
    CASE IsNaN(x) \/ IsNaN(y)     -> NaN
      [] IsFin(x) /\ IsFin(y)     -> F(x.v + y.v)
      [] IsFin(x)                 -> y
      [] IsFin(y)                 -> x
      [] x.k = y.k                -> x
      [] OTHER                    -> NaN

XSub(x, y) == XAdd(x, XNeg(y))

\* floor(a * b / Unit) without forming a * b
MulDown(a, b) ==
    (a \div Unit) * (b \div Unit) * Unit + (a \div Unit) * (b % Unit)
    + (a % Unit) * (b \div Unit) + ((a % Unit) * (b % Unit)) \div Unit

\* floor(a * Unit / b) without forming a * Unit, b > 0: long division, one
\* decimal digit of Unit at a time
DivDown(a, b) ==
    LET r0 == a % b
        r1 == (10 * r0) % b
        r2 == (10 * r1) % b
    IN  (a \div b) * Unit + ((10 * r0) \div b) * (Unit \div 10)
        + ((10 * r1) \div b) * (Unit \div (10 * 10)) + (10 * r2) \div b

XMul(x, y) ==
    CASE IsNaN(x) \/ IsNaN(y)     -> NaN
      [] IsFin(x) /\ IsFin(y)     -> F(MulDown(x.v, y.v))
      [] Sgn(x) = 0 \/ Sgn(y) = 0 -> NaN
      [] OTHER                    -> SignedInf(Sgn(x) * Sgn(y))

XDiv(x, y) ==
    CASE IsNaN(x) \/ IsNaN(y)     -> NaN
      [] IsFin(x) /\ IsFin(y)     ->
            IF y.v = 0
            THEN (IF x.v = 0 THEN NaN ELSE SignedInf(x.v))
            ELSE IF y.v > 0 THEN F(DivDown(x.v, y.v))
                 ELSE F(DivDown(0 - x.v, 0 - y.v))
      [] IsFin(x)                 -> Zero
      [] IsFin(y)                 -> SignedInf(Sgn(x) * (IF y.v < 0 THEN -1 ELSE 1))
      [] OTHER                    -> NaN

\* comparisons: every comparison with NaN is false
XGt(x, y) ==
    /\ ~IsNaN(x) /\ ~IsNaN(y)
    /\ CASE IsFin(x) /\ IsFin(y) -> x.v > y.v
         [] OTHER                -> (x.k = "inf" /\ y.k # "inf") \/ (y.k = "ninf" /\ x.k # "ninf")
XLe(x, y) == ~IsNaN(x) /\ ~IsNaN(y) /\ ~XGt(x, y)
XGe(x, y) == XLe(y, x)

RECURSIVE NewtonSqrt(_, _)
\* floor(sqrt(n * Unit)) by Newton's iteration from x above the root
NewtonSqrt(n, x) ==
    LET y == (x + DivDown(n, x)) \div 2
    IN  IF y >= x THEN x ELSE NewtonSqrt(n, y)

\* floor(sqrt(n * Unit)) of an integer n >= 0
ISqrt(n) == IF n = 0 THEN 0 ELSE NewtonSqrt(n, (n + Unit) \div 2 + 1)

\* np.sqrt
XSqrt(x) ==
    CASE IsNaN(x)     -> NaN
      [] x.k = "inf"  -> Inf
      [] x.k = "ninf" -> NaN
      [] x.v < 0      -> NaN
      [] OTHER        -> F(ISqrt(x.v))

\* product of two six-decimal values, rounded down, without forming a * b
AMul(a, b) ==
    LET b1 == b \div Unit
        b0 == b % Unit
        p1 == a * b1
    IN  (p1 \div Unit) + ((p1 % Unit) * Unit + a * b0) \div AmpUnit

RECURSIVE LongDiv(_, _, _)
\* <<floor(a * 10^n / b), the remainder>>, b > 0: long division
LongDiv(a, b, n) ==
    IF n = 0 THEN <<a \div b, a % b>>
    ELSE LET p == LongDiv(a, b, n - 1)
         IN  <<10 * p[1] + (10 * p[2]) \div b, (10 * p[2]) % b>>

\* ln 2 to six decimals
Ln2 == 693147 * (AmpUnit \div 1000000)

\* ln of a six-decimal value in [1, 2): 2 * atanh((m - 1) / (m + 1))
LnMantissa(m) ==
    LET y   == LongDiv(m - AmpUnit, m + AmpUnit, 6)[1]
        y2  == AMul(y, y)
        y3  == AMul(y2, y)
        y5  == AMul(y3, y2)
        y7  == AMul(y5, y2)
        y9  == AMul(y7, y2)
        y11 == AMul(y9, y2)
    IN  2 * (y + y3 \div 3 + y5 \div 5 + y7 \div 7 + y9 \div 9 + y11 \div 11)

RECURSIVE LnDown(_)
\* ln of a six-decimal value m > 0, to six decimals
LnDown(m) ==
    IF m >= 2 * AmpUnit THEN Ln2 + LnDown(m \div 2)
    ELSE IF m < AmpUnit THEN LnDown(2 * m) - Ln2
    ELSE LnMantissa(m)

RECURSIVE LnOfGrid(_)
\* ln of a grid value v > 0, to six decimals
LnOfGrid(v) ==
    IF v >= 2 * AmpUnit THEN Ln2 + LnOfGrid(v \div 2) ELSE LnDown(v * Unit)

\* np.log
XLn(x) ==
    CASE IsNaN(x)     -> NaN
      [] x.k = "inf"  -> Inf
      [] x.k = "ninf" -> NaN
      [] x.v < 0      -> NaN
      [] x.v = 0      -> NInf
      [] OTHER        -> F((LnOfGrid(x.v) + Unit \div 2) \div Unit)

\* x ** 2
XSq(x) == XMul(x, x)

\* a vector with its entries evaluated: np.array
Array(v) == SubSeq(v, 1, Len(v))

RECURSIVE XSum(_)
\* np.sum of a vector (pairwise)
XSum(s) ==
    LET n == Len(s)
    IN  IF n = 0 THEN Zero
        ELSE IF n = 1 THEN s[1]
        ELSE XAdd(XSum(SubSeq(s, 1, n \div 2)), XSum(SubSeq(s, n \div 2 + 1, n)))

RECURSIVE XProd(_)
\* np.product of a vector
XProd(s) ==
    LET n == Len(s)
    IN  IF n = 0 THEN One
        ELSE IF n = 1 THEN s[1]
        ELSE XMul(XProd(SubSeq(s, 1, n \div 2)), XProd(SubSeq(s, n \div 2 + 1, n)))

\* the entries of s at the positions where mask holds: s[mask]
Masked(s, mask) ==
    LET at == SelectSeq([i \in 1..Len(s) |-> i], LAMBDA i : mask[i])
    IN  Array([j \in 1..Len(at) |-> s[at[j]]])

---------------------------------------------------------------------------
(* signal_amplitudes                                                       *)

\* a parameter value (three decimals) as a six-decimal value
Amp(p) == p * Unit

signal_amplitudes_single(beta, br_tau) ==
    << beta[1],                    \* e
       beta[2],                    \* mu
       AMul(beta[3], br_tau[1]),   \* tau_e
       AMul(beta[3], br_tau[2]),   \* tau_mu
       AMul(beta[3], br_tau[3]),   \* tau_h
       beta[4] >>                  \* h

signal_amplitudes_double(beta, br_tau) ==
    << AMul(beta[1], beta[1]),                                              \* e, e
       AMul(beta[2], beta[2]),                                              \* mu, mu
       AMul(2 * beta[1], beta[2]),                                          \* e, mu
       AMul(AMul(beta[3], beta[3]), AMul(br_tau[1], br_tau[1])),            \* tau_e, tau_e
       AMul(AMul(beta[3], beta[3]), AMul(br_tau[2], br_tau[2])),            \* tau_mu, tau_mu
       AMul(AMul(AMul(2 * beta[3], beta[3]), br_tau[1]), br_tau[2]),        \* tau_e, tau_mu
       AMul(AMul(AMul(2 * beta[3], beta[3]), br_tau[1]), br_tau[3]),        \* tau_e, tau_h
       AMul(AMul(AMul(2 * beta[3], beta[3]), br_tau[2]), br_tau[3]),        \* tau_mu, tau_h
       AMul(AMul(AMul(beta[3], beta[3]), br_tau[3]), br_tau[3]),            \* tau_h, tau_h
       AMul(AMul(2 * beta[1], beta[3]), br_tau[1]),                         \* e, tau_e
       AMul(AMul(2 * beta[1], beta[3]), br_tau[2]),                         \* e, tau_mu
       AMul(AMul(2 * beta[1], beta[3]), br_tau[3]),                         \* e, tau_h
       AMul(AMul(2 * beta[2], beta[3]), br_tau[1]),                         \* mu, tau_e
       AMul(AMul(2 * beta[2], beta[3]), br_tau[2]),                         \* mu, tau_mu
       AMul(AMul(2 * beta[2], beta[3]), br_tau[3]),                         \* mu, tau_h
       AMul(2 * beta[1], beta[4]),                                          \* e, h
       AMul(2 * beta[2], beta[4]),                                          \* mu, h
       AMul(AMul(2 * beta[3], beta[4]), br_tau[1]),                         \* tau_e, h
       AMul(AMul(2 * beta[3], beta[4]), br_tau[2]),                         \* tau_mu, h
       AMul(AMul(2 * beta[3], beta[4]), br_tau[3]),                         \* tau_h, h
       AMul(beta[4], beta[4]) >>                                            \* h, h

\* signal_amplitudes with the factor 2 of the (e, mu) pair left out
signal_amplitudes_no_cross_weight(beta, br_tau, single_w) ==
    IF single_w THEN signal_amplitudes_single(beta, br_tau)
    ELSE [signal_amplitudes_double(beta, br_tau) EXCEPT ![3] = AMul(beta[1], beta[2])]

\* signal_amplitudes with the (tau_e, h) and (tau_mu, h) entries exchanged
signal_amplitudes_reordered(beta, br_tau, single_w) ==
    IF single_w THEN signal_amplitudes_single(beta, br_tau)
    ELSE LET a == signal_amplitudes_double(beta, br_tau)
         IN  [a EXCEPT ![18] = a[19], ![19] = a[18]]

\* beta, br_tau: six-decimal values; the result: six-decimal values
signal_amplitudes(beta, br_tau, single_w) ==
    IF single_w THEN signal_amplitudes_single(beta, br_tau)
    ELSE signal_amplitudes_double(beta, br_tau)

---------------------------------------------------------------------------
(* bb_objective_aux                                                        *)

\* bb_objective_aux with the two roots returned in the other order
bb_objective_aux_roots_swapped(params_mc, data_val, exp_val, exp_var) ==
    LET b    == XSub(XDiv(exp_var, exp_val), One)
        c    == XDiv(XMul(XMul(F(0 - Unit), data_val), exp_var), XSq(exp_val))
        disc == XSub(XSq(b), XMul(F(4 * Unit), c))
    IN  << XDiv(XSub(XMul(F(0 - Unit), b), XSqrt(disc)), F(2 * Unit)),
           XDiv(XAdd(XMul(F(0 - Unit), b), XSqrt(disc)), F(2 * Unit)) >>

\* a variant whose c is not divided by the square: -data*var/exp_val
bb_objective_aux_c_not_squared(params_mc, data_val, exp_val, exp_var) ==
    LET a    == One
        b    == XSub(XDiv(exp_var, exp_val), One)
        c    == XDiv(XMul(XMul(F(0 - Unit), data_val), exp_var), exp_val)
        disc == XSub(XSq(b), XMul(XMul(F(4 * Unit), a), c))
        beta_plus  == XDiv(XAdd(XMul(F(0 - Unit), b), XSqrt(disc)), F(2 * Unit))
        beta_minus == XDiv(XSub(XMul(F(0 - Unit), b), XSqrt(disc)), F(2 * Unit))
    IN  <<beta_plus, beta_minus>>

\* a variant that starts from the previous scale factors: b is taken
\* relative to params_mc
bb_objective_aux_reads_params_mc(params_mc, data_val, exp_val, exp_var) ==
    LET a    == One
        b    == XSub(XDiv(exp_var, exp_val), params_mc[1])
        c    == XDiv(XMul(XMul(F(0 - Unit), data_val), exp_var), XSq(exp_val))
        disc == XSub(XSq(b), XMul(XMul(F(4 * Unit), a), c))
        beta_plus  == XDiv(XAdd(XMul(F(0 - Unit), b), XSqrt(disc)), F(2 * Unit))
        beta_minus == XDiv(XSub(XMul(F(0 - Unit), b), XSqrt(disc)), F(2 * Unit))
    IN  <<beta_plus, beta_minus>>

\* <<beta_plus, beta_minus>>; params_mc is not read
bb_objective_aux(params_mc, data_val, exp_val, exp_var) ==
    LET a    == One
        b    == XSub(XDiv(exp_var, exp_val), One)
        c    == XDiv(XMul(XMul(F(0 - Unit), data_val), exp_var), XSq(exp_val))
        disc == XSub(XSq(b), XMul(XMul(F(4 * Unit), a), c))
        beta_plus  == XDiv(XAdd(XMul(F(0 - Unit), b), XSqrt(disc)), F(2 * Unit))
        beta_minus == XDiv(XSub(XMul(F(0 - Unit), b), XSqrt(disc)), F(2 * Unit))
    IN  <<beta_plus, beta_minus>>

---------------------------------------------------------------------------
(* Vectors of fixed-point values.                                          *)

VAdd(a, b) == Array([i \in 1..Len(a) |-> XAdd(a[i], b[i])])
VSub(a, b) == Array([i \in 1..Len(a) |-> XSub(a[i], b[i])])
VMul(a, b) == Array([i \in 1..Len(a) |-> XMul(a[i], b[i])])
\* np.zeros_like, np.ones
ZerosLike(v) == [i \in 1..Len(v) |-> Zero]
Ones(n) == [i \in 1..n |-> One]

Front(s) == SubSeq(s, 1, Len(s) - 1)
Last(s)  == s[Len(s)]

---------------------------------------------------------------------------
(* FitData._initialize_parameters                                          *)
(*                                                                         *)
(* A row of the parameter table: name, type ("poi" | "norm" | "shape"),    *)
(* val_init, err_init, active, and flags: one applicability flag per       *)
(* selection column and per process column.                                *)

CountType(df_params, type) == Len(SelectSeq(df_params, LAMBDA r : r.type = type))

initialize_parameters(df_params) ==
    [ nparams    |-> Len(df_params),
      npoi       |-> CountType(df_params, "poi"),
      nnorm      |-> CountType(df_params, "norm"),
      nshape     |-> CountType(df_params, "shape"),
      pval_init  |-> [i \in 1..Len(df_params) |-> df_params[i].val_init],
      perr_init  |-> [i \in 1..Len(df_params) |-> df_params[i].err_init],
      parameters |-> df_params ]

---------------------------------------------------------------------------
(* FitData._initialize_fit_tensor                                          *)
(*                                                                         *)
(* A template: val, var (one value per bin) and cols, the columns          *)
(* <<pname, "up">>, <<pname, "down">> it holds.  The templates of a        *)
(* category map "data" and process names to templates; a process with      *)
(* sub-templates maps to the sequence of them (the dict's order).          *)

SimpleProcesses == {"zjets_alt", "diboson", "fakes"}
SubdividedProcesses == {"ttbar", "t", "ww", "wjets"}
SameSignSelections == {"etau", "mutau", "emu"}

\* the rows the build iterates over: self._parameters.query('type != "poi"')
NuisanceRows(df_params) == SelectSeq(df_params, LAMBDA r : r.type # "poi")

\* a variant with the strict comparison: significance < process_cut
BelowCut_strict(val, data_var, process_cut) ==
    XGt(process_cut, XDiv(XSum(val), XSqrt(XSum(data_var))))

\* val.sum()/np.sqrt(data_var.sum()) <= process_cut
BelowCut(val, data_var, process_cut) ==
    XLe(XDiv(XSum(val), XSqrt(XSum(data_var))), process_cut)

RECURSIVE NuisanceColumns(_, _, _, _, _)
\* the loop over params.iterrows() for one stacked template: the delta_plus
\* and delta_minus vectors of the shape rows and the norm_vector
NuisanceColumns(rows, sel, ds, template, val) ==
    IF rows = <<>>
    THEN [delta_plus |-> <<>>, delta_minus |-> <<>>, norm_vector |-> <<>>]
    ELSE
      LET rest  == NuisanceColumns(Front(rows), sel, ds, template, val)
          param == Last(rows)
      IN  IF param.type = "shape" /\ param.flags[sel]
          THEN LET on == /\ <<param.name, "up">> \in DOMAIN template.cols
                         /\ param.active
                         /\ param.flags[ds]
                   deff_plus  == IF on THEN VSub(template.cols[<<param.name, "up">>], val)
                                 ELSE ZerosLike(val)
                   deff_minus == IF on THEN VSub(template.cols[<<param.name, "down">>], val)
                                 ELSE ZerosLike(val)
               IN  [rest EXCEPT !.delta_plus  = Append(@, VAdd(deff_plus, deff_minus)),
                                !.delta_minus = Append(@, VSub(deff_plus, deff_minus))]
          ELSE IF param.type = "norm"
          THEN [rest EXCEPT !.norm_vector =
                   Append(@, IF param.flags[sel] /\ param.flags[ds] /\ param.active
                             THEN 1 ELSE 0)]
          ELSE rest

\* a variant that stacks delta_minus before delta_plus
ProcessArray_deltas_swapped(val, var, delta_plus, delta_minus) ==
    [b \in 1..Len(val) |->
        <<val[b], var[b]>>
        \o [j \in 1..Len(delta_minus) |-> delta_minus[j][b]]
        \o [j \in 1..Len(delta_plus) |-> delta_plus[j][b]]]

\* np.vstack([val, var, delta_plus, delta_minus]).T: per bin, the row
\* [value, variance, delta_plus.., delta_minus..]
ProcessArray(val, var, delta_plus, delta_minus) ==
    [b \in 1..Len(val) |->
        <<val[b], var[b]>>
        \o [j \in 1..Len(delta_plus) |-> delta_plus[j][b]]
        \o [j \in 1..Len(delta_minus) |-> delta_minus[j][b]]]

\* a variant whose norm_vector is 1 for every normalization parameter
StackedSlot_norm_all_ones(val, var, c) ==
    [stacked |-> TRUE,
     array |-> ProcessArray(val, var, c.delta_plus, c.delta_minus),
     norm_vector |-> [j \in 1..Len(c.norm_vector) |-> 1]]

\* one template (a process or a sub-sample): masked out when below the cut,
\* stacked otherwise, with its array and its norm_vector
StackedSlot(val, var, c) ==
    [stacked |-> TRUE,
     array |-> ProcessArray(val, var, c.delta_plus, c.delta_minus),
     norm_vector |-> c.norm_vector]

StackTemplate(rows, sel, ds, template, data_var, process_cut) ==
    IF BelowCut(template.val, data_var, process_cut)
    THEN [stacked |-> FALSE, array |-> <<>>, norm_vector |-> <<>>]
    ELSE StackedSlot(template.val, template.var,
                     NuisanceColumns(rows, sel, ds, template, template.val))

\* a missing process given one mask slot whatever its sub-samples
AbsentSlots_single(ds) ==
    <<[stacked |-> FALSE, array |-> <<>>, norm_vector |-> <<>>]>>

\* the mask slots of a process missing from the templates
AbsentSlots(ds) ==
    LET masked_out == [stacked |-> FALSE, array |-> <<>>, norm_vector |-> <<>>]
    IN  IF ds \in {"ttbar", "t", "ww"} THEN [i \in 1..21 |-> masked_out]
        ELSE IF ds = "wjets" THEN [i \in 1..6 |-> masked_out]
        ELSE <<masked_out>>

\* the body of `for ds in self._processes`: the slots of one process
StackProcess(rows, sel, ds0, templates, data_var, process_cut) ==
    LET ds1 == IF sel \in SameSignSelections /\ ds0 = "fakes" THEN "fakes_ss" ELSE ds0
    IN  IF ds1 \notin DOMAIN templates
        THEN AbsentSlots(ds1)
        ELSE
          LET template == templates[ds1]
              ds == IF sel \in SameSignSelections /\ ds1 = "fakes_ss" THEN "fakes" ELSE ds1
          IN  IF ds \in SimpleProcesses
              THEN <<StackTemplate(rows, sel, ds, template, data_var, process_cut)>>
              ELSE IF ds \in SubdividedProcesses
              THEN [i \in 1..Len(template) |->
                      StackTemplate(rows, sel, ds, template[i], data_var, process_cut)]
              ELSE <<>>

RECURSIVE StackSlots(_, _, _, _, _, _)
\* the slots of all processes, in the order of self._processes
StackSlots(rows, sel, processes, templates, data_var, process_cut) ==
    IF processes = <<>> THEN <<>>
    ELSE StackSlots(rows, sel, Front(processes), templates, data_var, process_cut)
         \o StackProcess(rows, sel, Last(processes), templates, data_var, process_cut)

\* a variant that stacks the arrays in the reverse order of the slots
StackedOf_rows_reversed(slots) ==
    LET kept == SelectSeq(slots, LAMBDA s : s.stacked)
    IN  [ process_mask |-> [i \in 1..Len(slots) |-> slots[i].stacked],
          data_tensor  |-> [i \in 1..Len(kept) |-> kept[Len(kept) + 1 - i].array],
          norm_mask    |-> [i \in 1..Len(kept) |-> kept[i].norm_vector] ]

\* process_mask, data_tensor and norm_mask as the loop over the processes
\* leaves them
StackedOf(slots) ==
    LET kept == SelectSeq(slots, LAMBDA s : s.stacked)
    IN  [ process_mask |-> [i \in 1..Len(slots) |-> slots[i].stacked],
          data_tensor  |-> [i \in 1..Len(kept) |-> kept[i].array],
          norm_mask    |-> [i \in 1..Len(kept) |-> kept[i].norm_vector] ]

StackProcesses(rows, sel, processes, templates, data_var, process_cut) ==
    StackedOf(StackSlots(rows, sel, processes, templates, data_var, process_cut))

\* params.query('type == "shape"')[sel].values.astype(bool)
ShapeParamMask(df_params, sel) ==
    LET shape == SelectSeq(df_params, LAMBDA r : r.type = "shape")
    IN  [i \in 1..Len(shape) |-> shape[i].flags[sel]]

\* self._model_data[f'{sel}_{category}'] for one category
CategoryRecord(data_val, data_var, s, shape_param_mask) ==
    [ data             |-> <<data_val, data_var>>,
      model            |-> s.data_tensor,
      process_mask     |-> s.process_mask,
      shape_param_mask |-> shape_param_mask,
      norm_mask        |-> s.norm_mask ]

CategoryModelData(df_params, sel, processes, templates, process_cut) ==
    CategoryRecord(templates["data"].val, templates["data"].var,
                   StackProcesses(NuisanceRows(df_params), sel, processes, templates,
                                  templates["data"].var, process_cut),
                   ShapeParamMask(df_params, sel))

RECURSIVE CategoryKeysOf(_, _)
\* self._categories: the keys <<sel, category>> in the order of the loops
CategoryKeysOf(selections, selection_data) ==
    IF selections = <<>> THEN <<>>
    ELSE LET sel  == Last(selections)
             cats == selection_data[sel]
         IN  CategoryKeysOf(Front(selections), selection_data)
             \o [i \in 1..Len(cats) |-> <<sel, cats[i].name>>]

\* the templates of the category with key cat
TemplatesOf(selection_data, cat) ==
    LET cats == selection_data[cat[1]]
        i == CHOOSE i \in 1..Len(cats) : cats[i].name = cat[2]
    IN  cats[i].templates

\* self._model_data, self._bin_np; self._rnum_cache is drawn by the caller
initialize_fit_tensor(df_params, selections, processes, selection_data, process_cut) ==
    LET keys == CategoryKeysOf(selections, selection_data)
        keyset == {keys[i] : i \in 1..Len(keys)}
    IN  [ categories |-> keys,
          model_data |-> [cat \in keyset |->
              CategoryModelData(df_params, cat[1], processes,
                                TemplatesOf(selection_data, cat), process_cut)],
          bin_np |-> [cat \in keyset |->
              Ones(Len(TemplatesOf(selection_data, cat)["data"].val))] ]

\* initialize_minimization_cache
initialize_minimization_cache(keys) ==
    [cat \in {keys[i] : i \in 1..Len(keys)} |-> [cost |-> Zero, np_bb |-> Zero]]

---------------------------------------------------------------------------
(* The cost.  The sum-to-one term (1 - sum)^2 / 2e-12 exceeds the integers *)
(* of the checker, so the returned cost is kept in two limbs:              *)
(* hi * WBase + v on the grid, 0 <= v < WBase.                             *)

WBase == Unit * Unit * Unit

WInf == [k |-> "inf", hi |-> 0, v |-> 0]
WNaN == [k |-> "nan", hi |-> 0, v |-> 0]

Wide(x) ==
    IF IsFin(x) THEN [k |-> "fin", hi |-> x.v \div WBase, v |-> x.v % WBase]
    ELSE [k |-> x.k, hi |-> 0, v |-> 0]

WAdd(x, y) ==
    CASE x.k = "nan" \/ y.k = "nan" -> WNaN
      [] x.k = "fin" /\ y.k = "fin" ->
            [k |-> "fin", hi |-> x.hi + y.hi + (x.v + y.v) \div WBase,
             v |-> (x.v + y.v) % WBase]
      [] x.k = "fin"                -> y
      [] y.k = "fin"                -> x
      [] x.k = y.k                  -> x
      [] OTHER                      -> WNaN

---------------------------------------------------------------------------
(* FitData.mixture_model                                                   *)

\* the argument default None
None == <<>>

\* a parameter value as a six-decimal branching fraction
AmpOf(x) == Amp(x.v)

\* amplitude / reference amplitude, on the three-decimal grid
AmpRatio(a, a0) ==
    IF a0 = 0 THEN (IF a = 0 THEN NaN ELSE SignedInf(a))
    ELSE IF a0 > 0 THEN F((a * Unit) \div a0)
    ELSE F(((0 - a) * Unit) \div (0 - a0))

\* np.concatenate([ww_amp, ww_amp, ww_amp, w_amp, [1, 1, 1]])
ConcatenateAmplitudes(ww_amp, w_amp) ==
    ww_amp \o ww_amp \o ww_amp \o w_amp \o <<One, One, One>>

\* signal_amplitudes(beta, br_tau) / self._ww_amp_init, entry by entry
AmpRatios(amp, amp_init) == [i \in 1..Len(amp) |-> AmpRatio(amp[i], amp_init[i])]

\* the process amplitudes of params[:4], params[4:7]
ProcessAmplitudes(self, params) ==
    LET beta   == [i \in 1..4 |-> AmpOf(params[i])]
        br_tau == [i \in 1..3 |-> AmpOf(params[4 + i])]
    IN  ConcatenateAmplitudes(
            AmpRatios(signal_amplitudes(beta, br_tau, FALSE), self.ww_amp_init),
            AmpRatios(signal_amplitudes(beta, br_tau, TRUE), self.w_amp_init))

\* a variant that leaves the entries equal to 0 in the product
NormMultipliers_keep_zeros(norm_mask, norm_params) ==
    Array([p \in 1..Len(norm_mask) |->
        XProd(Array([j \in 1..Len(norm_params) |->
                 IF norm_mask[p][j] = 1 THEN norm_params[j]
                 ELSE XMul(Zero, norm_params[j])]))])

\* norm_mask*norm_params; entries equal to 0 set to 1; product per process
NormMultipliers(norm_mask, norm_params) ==
    Array([p \in 1..Len(norm_mask) |->
        XProd(Array([j \in 1..Len(norm_params) |->
                 LET e == IF norm_mask[p][j] = 1 THEN norm_params[j]
                          ELSE XMul(Zero, norm_params[j])
                 IN  IF e = Zero THEN One ELSE e]))])

\* a variant with the weight 1 in place of 0.5
Half_as_one == One

Half == F(Unit \div 2)

\* a variant that puts the two weights of a parameter side by side:
\* [1, 0, 0.5*s_1^2, 0.5*s_1, 0.5*s_2^2, 0.5*s_2, ...]
ShapeWeights_interleaved(shape_params_masked) ==
    <<One, Zero>>
    \o [j \in 1..(2 * Len(shape_params_masked)) |->
           IF j % 2 = 1 THEN XMul(Half, XSq(shape_params_masked[(j + 1) \div 2]))
           ELSE XMul(Half, shape_params_masked[j \div 2])]

\* np.concatenate([[1, 0], 0.5*shape_params_masked**2, 0.5*shape_params_masked])
ShapeWeights(shape_params_masked) ==
    <<One, Zero>>
    \o [j \in 1..Len(shape_params_masked) |-> XMul(Half, XSq(shape_params_masked[j]))]
    \o [j \in 1..Len(shape_params_masked) |-> XMul(Half, shape_params_masked[j])]

\* sum of a[i] * b[i]
Dot(a, b) == XSum(VMul(a, b))

\* np.tensordot(model_tensor, shape_params_masked, axes=1)
MorphTensor(model_tensor, weights) ==
    Array([p \in 1..Len(model_tensor) |->
        Array([b \in 1..Len(model_tensor[1]) |-> Dot(model_tensor[p][b], weights)])])

\* np.tensordot(model_val.T, process_amplitudes_masked, axes=1)
SumProcesses(morphed, scale) ==
    Array([b \in 1..Len(morphed[1]) |->
        Dot(Array([p \in 1..Len(morphed) |-> morphed[p][b]]), scale)])

\* a variant that sums the value rows
ModelVar_of_values(model_tensor) ==
    Array([b \in 1..Len(model_tensor[1]) |->
        XSum(Array([p \in 1..Len(model_tensor) |-> model_tensor[p][b][1]]))])

\* model_tensor[:,:,1].sum(axis=0)
ModelVar(model_tensor) ==
    Array([b \in 1..Len(model_tensor[1]) |->
        XSum(Array([p \in 1..Len(model_tensor) |-> model_tensor[p][b][2]]))])

\* model_val += np.sqrt(model_var)*self._rnum_cache[category]
Displace(summed, model_var, rnum) ==
    Array([b \in 1..Len(summed) |->
        XAdd(summed[b], XMul(XSqrt(model_var[b]), rnum[b]))])

\* the value returned for the morphed tensor and the scaled amplitudes
MixtureResult(morphed, model_var, scale, no_sum, randomize, rnum) ==
    IF no_sum THEN <<morphed, model_var>>
    ELSE IF randomize
    THEN <<Displace(SumProcesses(morphed, scale), model_var, rnum), model_var>>
    ELSE <<SumProcesses(morphed, scale), model_var>>

\* <<model_val, model_var>>
mixture_model(self, params, category, process_amplitudes, no_sum, randomize) ==
    LET md           == self.model_data[category]
        norm_params  == SubSeq(params, self.npoi + 1, self.npoi + self.nnorm)
        shape_params == SubSeq(params, self.npoi + self.nnorm + 1, Len(params))
    IN  MixtureResult(
            MorphTensor(md.model,
                        ShapeWeights(Masked(shape_params, md.shape_param_mask))),
            ModelVar(md.model),
            VMul(NormMultipliers(md.norm_mask, norm_params),
                 Masked(IF process_amplitudes = None
                        THEN ProcessAmplitudes(self, params)
                        ELSE process_amplitudes, md.process_mask)),
            no_sum, randomize, self.rnum_cache[category])

---------------------------------------------------------------------------
(* FitData.objective                                                       *)

\* a variant that keeps every bin
PoissonNll_unmasked(data_val, model_val) ==
    Array([b \in 1..Len(data_val) |->
        XAdd(XAdd(XMul(XNeg(data_val[b]), XLn(model_val[b])), model_val[b]),
             XSub(XMul(data_val[b], XLn(data_val[b])), data_val[b]))])

\* -data*log(model) + model + data*log(data) - data over the bins with
\* model > 0 and data > 0
PoissonNll(data_val, model_val) ==
    LET mask == [b \in 1..Len(data_val) |->
                    XGt(model_val[b], Zero) /\ XGt(data_val[b], Zero)]
        d == Masked(data_val, mask)
        m == Masked(model_val, mask)
    IN  Array([b \in 1..Len(d) |->
            XAdd(XAdd(XMul(XNeg(d[b]), XLn(m[b])), m[b]),
                 XSub(XMul(d[b], XLn(d[b])), d[b]))])

\* 0.5*(data - model)**2 / (data_var + model_var) over the bins with
\* data_var + model_var > 0
Chi2Nll(data_val, data_var, model_val, model_var) ==
    LET mask == [b \in 1..Len(data_val) |-> XGt(XAdd(data_var[b], model_var[b]), Zero)]
        d  == Masked(data_val, mask)
        m  == Masked(model_val, mask)
        dv == Masked(data_var, mask)
        mv == Masked(model_var, mask)
    IN  Array([b \in 1..Len(d) |->
            XDiv(XMul(Half, XSq(XSub(d[b], m[b]))), XAdd(dv[b], mv[b]))])

\* (1 - bin_amp)**2/(2*model_var/model_val**2), model_val already scaled
BBPenalty(bin_amp, model_val, model_var) ==
    Array([b \in 1..Len(bin_amp) |->
        XDiv(XSq(XSub(One, bin_amp[b])),
             XDiv(XMul(F(2 * Unit), model_var[b]), XSq(model_val[b])))])

\* (params[4:] - pval_init[4:])**2 / (2*perr_init[4:]**2)
PriorTerms(self, params) ==
    Array([i \in 1..(Len(params) - 4) |->
        XDiv(XSq(XSub(params[4 + i], self.pval_init[4 + i])),
             XMul(F(2 * Unit), XSq(self.perr_init[4 + i])))])

\* the 2 of 2e-12
TwoEpsSqMantissa == 2

\* a variant without the squaring: |1 - sum| / 2e-12
ConstraintTerm_not_squared(beta) ==
    LET s == XSum(beta)
        q == IF s.v > Unit THEN s.v - Unit ELSE Unit - s.v
    IN  IF ~IsFin(s) THEN Wide(s)
        ELSE [k |-> "fin", hi |-> q * (Unit \div TwoEpsSqMantissa), v |-> 0]

\* (1 - np.sum(beta))**2/(2e-12): with 1 - sum = d / Unit the term is
\* d^2 * 10^12 / (2 * Unit^2), on the cost grid d^2 * WBase / 2
ConstraintTerm(beta) ==
    LET s == XSum(beta)
        q == (Unit - s.v) * (Unit - s.v)
    IN  IF ~IsFin(s) THEN Wide(s)
        ELSE [k |-> "fin", hi |-> q \div TwoEpsSqMantissa,
              v |-> (q % TwoEpsSqMantissa) * (WBase \div TwoEpsSqMantissa)]

\* a variant with the bounds themselves allowed
BetaOutOfRange_strict(beta) ==
    \E i \in 1..Len(beta) : XGt(Zero, beta[i]) \/ XGt(beta[i], One)

\* np.any((beta <= 0.) | (beta >= 1.))
BetaOutOfRange(beta) ==
    \E i \in 1..Len(beta) : XLe(beta[i], Zero) \/ XGe(beta[i], One)

\* what one iteration of the loop leaves: the cost it adds and the entries
\* of self._bin_np and self._cache
CategoryResult(self, category, bin_amp, bb_penalty, nll, do_mc_stat) ==
    [ cost   |-> IF do_mc_stat THEN XAdd(XSum(bb_penalty), XSum(nll)) ELSE XSum(nll),
      bin_np |-> IF do_mc_stat THEN bin_amp ELSE self.bin_np[category],
      cache  |-> [(IF do_mc_stat
                   THEN ("bb_penalty" :> bb_penalty) @@ self.cache[category]
                   ELSE self.cache[category]) EXCEPT !["cost"] = nll] ]

\* the penalty and the cost of the bins for the scaled model
CategoryTerms(self, category, data_val, data_var, model_val, model_var, bin_amp, cost_type, do_mc_stat) ==
    CategoryResult(self, category, bin_amp,
                   BBPenalty(bin_amp, model_val, model_var),
                   IF cost_type = "poisson" THEN PoissonNll(data_val, model_val)
                   ELSE Chi2Nll(data_val, data_var, model_val, model_var),
                   do_mc_stat)

\* model_val *= bin_amp
CategoryScaled(self, category, data_val, data_var, model_val0, model_var, bin_amp, cost_type, do_mc_stat) ==
    CategoryTerms(self, category, data_val, data_var,
                  IF do_mc_stat THEN VMul(model_val0, bin_amp) ELSE model_val0,
                  model_var, bin_amp, cost_type, do_mc_stat)

\* bb_objective_aux(bin_amp, data_val, model_val, model_var)[0], bin by bin
BinAmp(params_mc, data_val, model_val0, model_var) ==
    Array([b \in 1..Len(model_val0) |->
        bb_objective_aux(params_mc, data_val[b], model_val0[b], model_var[b])[1]])

\* the loop body after the templates are fetched and summed for no_shape
CategoryCost(self, category, data_val, data_var, model_val0, model_var, cost_type, do_mc_stat) ==
    CategoryScaled(self, category, data_val, data_var, model_val0, model_var,
                   BinAmp(self.bin_np[category], data_val, model_val0, model_var),
                   cost_type, do_mc_stat)

\* a variant that keeps the bins apart
Summed_bin_by_bin(val, no_shape) == val

\* np.sum of a template for no_shape
Summed(val, no_shape) == IF no_shape THEN <<XSum(val)>> ELSE val

\* the loop body for the model mm = <<model_val, model_var>> and the data
CategoryFit(self, category, mm, dat, cost_type, no_shape, do_mc_stat) ==
    CategoryCost(self, category, Summed(dat[1], no_shape), Summed(dat[2], no_shape),
                 Summed(mm[1], no_shape), Summed(mm[2], no_shape), cost_type,
                 do_mc_stat)

\* a variant that fits the categories of veto_list like the others
ObjectiveCategory_ignores_veto(self, category, params, data, cost_type, no_shape, do_mc_stat, randomize_templates, process_amplitudes) ==
    CategoryFit(self, category,
                mixture_model(self, params, category, process_amplitudes, FALSE,
                              randomize_templates),
                IF data = None THEN self.model_data[category].data
                ELSE data[category],
                cost_type, no_shape, do_mc_stat)

\* the body of the loop over self._model_data.items() for one category: what
\* it adds to cost and the entries of self._bin_np and self._cache it leaves.
\* An iteration reads and writes the entries of its own category only.
ObjectiveCategory(self, category, params, data, cost_type, no_shape, do_mc_stat, randomize_templates, process_amplitudes) ==
    IF category \in self.veto_list
    THEN [cost |-> Zero, bin_np |-> self.bin_np[category], cache |-> self.cache[category]]
    ELSE CategoryFit(self, category,
                     mixture_model(self, params, category, process_amplitudes, FALSE,
                                   randomize_templates),
                     IF data = None THEN self.model_data[category].data
                     ELSE data[category],
                     cost_type, no_shape, do_mc_stat)

\* the position of a category in self._categories
CategoryIndex(self, category) ==
    CHOOSE i \in 1..Len(self.categories) : self.categories[i] = category

\* the cost after the loop: the priors, the sum-to-one term, the override
ObjectiveResult(self, params, loop, pi_param) ==
    LET beta == SubSeq(params, 1, 4)
    IN  [ ret     |-> IF BetaOutOfRange(beta) THEN WInf
                      ELSE WAdd(Wide(XAdd(XSum(Array([i \in 1..Len(loop) |->
                                                        loop[i].cost])),
                                          XSum(pi_param))),
                                ConstraintTerm(beta)),
          bin_np  |-> [category \in DOMAIN self.model_data |->
                          loop[CategoryIndex(self, category)].bin_np],
          cache   |-> [category \in DOMAIN self.model_data |->
                          loop[CategoryIndex(self, category)].cache],
          np_cost |-> pi_param ]

\* the iterations of the loop, in the order of self._categories
ObjectiveLoop(self, params, data, cost_type, no_shape, do_mc_stat, randomize_templates, process_amplitudes) ==
    Array([i \in 1..Len(self.categories) |->
        ObjectiveCategory(self, self.categories[i], params, data, cost_type,
                          no_shape, do_mc_stat, randomize_templates,
                          process_amplitudes)])

\* the value returned and the fields of self as the call leaves them
objective(self, params, data, cost_type, no_shape, do_mc_stat, randomize_templates) ==
    ObjectiveResult(self, params,
                    ObjectiveLoop(self, params, data, cost_type, no_shape,
                                  do_mc_stat, randomize_templates,
                                  ProcessAmplitudes(self, params)),
                    PriorTerms(self, params))

---------------------------------------------------------------------------
(* FitData.__init__                                                        *)

\* self.veto_list = ['ee_cat_gt2_eq0', 'mumu_cat_gt2_eq0']
VetoList == {<<"ee", "cat_gt2_eq0">>, <<"mumu", "cat_gt2_eq0">>}

AsValues(s) == Array([i \in 1..Len(s) |-> F(s[i])])

\* the fields before the cost is initialized
Assemble(pars, tensor, rnum) ==
    LET beta_init   == [i \in 1..4 |-> Amp(pars.pval_init[i])]
        br_tau_init == [i \in 1..3 |-> Amp(pars.pval_init[4 + i])]
    IN  [ parameters  |-> pars.parameters,
          npoi        |-> pars.npoi,
          nnorm       |-> pars.nnorm,
          nshape      |-> pars.nshape,
          pval_init   |-> AsValues(pars.pval_init),
          perr_init   |-> AsValues(pars.perr_init),
          ww_amp_init |-> signal_amplitudes(beta_init, br_tau_init, FALSE),
          w_amp_init  |-> signal_amplitudes(beta_init, br_tau_init, TRUE),
          veto_list   |-> VetoList,
          categories  |-> tensor.categories,
          model_data  |-> tensor.model_data,
          bin_np      |-> tensor.bin_np,
          rnum_cache  |-> [cat \in DOMAIN tensor.model_data |-> rnum],
          cache       |-> initialize_minimization_cache(tensor.categories),
          np_cost     |-> Zero,
          cost_init   |-> Wide(Zero) ]

\* the fields after a call of objective returned first
AfterCall(built, first) ==
    [built EXCEPT !.bin_np = first.bin_np, !.cache = first.cache,
                  !.np_cost = first.np_cost, !.cost_init = first.ret]

\* self._cost_init = self.objective(self.get_params_init(as_array=True))
InitializeCost(built) ==
    AfterCall(built, objective(built, built.pval_init, None, "poisson", FALSE, TRUE,
                               FALSE))

\* the instance as __init__ leaves it.  df_params: data/model_parameters.csv;
\* selection_data: the pickled templates; rnum: the draws of np.random.randn
FitData(df_params, selections, processes, selection_data, process_cut, rnum) ==
    InitializeCost(Assemble(initialize_parameters(df_params),
                            initialize_fit_tensor(df_params, selections, processes,
                                                  selection_data, process_cut),
                            rnum))

\* the instance in the current state
Self ==
    [ parameters |-> parameters, npoi |-> npoi, nnorm |-> nnorm, nshape |-> nshape,
      pval_init |-> pval_init, perr_init |-> perr_init, ww_amp_init |-> ww_amp_init,
      w_amp_init |-> w_amp_init, veto_list |-> veto_list, categories |-> categories,
      model_data |-> model_data, bin_np |-> bin_np, rnum_cache |-> rnum_cache,
      cache |-> cache, np_cost |-> np_cost, cost_init |-> cost_init ]

---------------------------------------------------------------------------
(* The calls.  `call` holds the last call: its name, its arguments and     *)
(* the value it returned.                                                  *)

\* The module-level functions need no FitData instance.
Unbuilt ==
    /\ parameters = <<>>
    /\ npoi = 0
    /\ nnorm = 0
    /\ nshape = 0
    /\ pval_init = <<>>
    /\ perr_init = <<>>
    /\ ww_amp_init = <<>>
    /\ w_amp_init = <<>>
    /\ veto_list = {}
    /\ categories = <<>>
    /\ model_data = <<>>
    /\ bin_np = <<>>
    /\ rnum_cache = <<>>
    /\ cache = <<>>
    /\ np_cost = Zero
    /\ cost_init = Zero

RECURSIVE ISum(_)
ISum(s) == IF s = <<>> THEN 0 ELSE s[1] + ISum(Tail(s))

---------------------------------------------------------------------------
(* Calls of signal_amplitudes on a grid of branching fractions.            *)

\* grid step 0.2: every product of up to four grid values is exact
AmpStep == AmpUnit \div 5
\* branching fractions 0, 0.2, ..., AmpSteps * 0.2
AmpSteps == 3

AmpGrid == {i * AmpStep : i \in 0..AmpSteps}

\* the reference point of the analysis, to three decimals
BetaRef  == <<Amp(108), Amp(108), Amp(108), Amp(676)>>
BrTauRef == <<Amp(178), Amp(174), Amp(648)>>

AmpBetas   == [1..4 -> AmpGrid] \cup {BetaRef}
AmpBrTaus  == [1..3 -> AmpGrid] \cup {BrTauRef}

OnAmpGrid(s) == \A i \in DOMAIN s : s[i] % AmpStep = 0

\* the arguments are drawn before the call; the call is made once
InitAmp ==
    /\ Unbuilt
    /\ \E beta \in AmpBetas, br_tau \in AmpBrTaus, single_w \in BOOLEAN :
          call = [op |-> "signal_amplitudes", beta |-> beta, br_tau |-> br_tau,
                  single_w |-> single_w, done |-> FALSE, ret |-> <<>>]

CallSignalAmplitudes ==
    /\ ~call.done
    /\ call' = [call EXCEPT !.done = TRUE,
                            !.ret = signal_amplitudes(call.beta, call.br_tau, call.single_w)]
    /\ UNCHANGED engine

NextAmp == CallSignalAmplitudes

SpecAmp == InitAmp /\ [][NextAmp]_vars

---------------------------------------------------------------------------
(* Calls of bb_objective_aux on a grid of bin contents.                    *)

MaxBBData  == 4
MaxBBModel == 6
MaxBBVar   == 4

BBDataVals  == {F(i * Unit) : i \in 0..MaxBBData}
BBModelVals == {F(i * (Unit \div 2)) : i \in (0 - MaxBBModel)..MaxBBModel}
BBVarVals   == {F(i * (Unit \div 2)) : i \in 0..MaxBBVar}

InitBB ==
    /\ Unbuilt
    /\ \E d \in BBDataVals, m \in BBModelVals, v \in BBVarVals :
          call = [op |-> "bb_objective_aux", data_val |-> d, exp_val |-> m,
                  exp_var |-> v, done |-> FALSE, ret |-> <<>>]

CallBBObjectiveAux ==
    /\ ~call.done
    /\ call' = [call EXCEPT !.done = TRUE,
                            !.ret = bb_objective_aux(One, call.data_val, call.exp_val,
                                                     call.exp_var)]
    /\ UNCHANGED engine

NextBB == CallBBObjectiveAux

SpecBB == InitBB /\ [][NextBB]_vars

---------------------------------------------------------------------------
(* The inputs of the engine: parameter tables and templates.               *)

\* bins per category
NBins == 2

\* a histogram of NBins bins from whole numbers; bins past the given ones
\* repeat the last
Hist(s) == Array([b \in 1..NBins |-> F(Unit * s[IF b <= Len(s) THEN b ELSE Len(s)])])

Tpl(val, var) == [val |-> Hist(val), var |-> Hist(var), cols |-> <<>>]

\* a template with the up and down variations of shape parameter pname
TplShape(val, var, pname, up, down) ==
    [val |-> Hist(val), var |-> Hist(var),
     cols |-> (<<pname, "up">> :> Hist(up)) @@ (<<pname, "down">> :> Hist(down))]

\* n sub-samples, all empty but the k-th
SubSamples(n, k, tpl) ==
    [i \in 1..n |-> IF i = k THEN tpl ELSE [tpl EXCEPT !.val = ZerosLike(tpl.val),
                                                       !.var = ZerosLike(tpl.var)]]

ProcessList == <<"ttbar", "t", "ww", "wjets", "zjets_alt", "diboson", "fakes">>

Columns == {"ee", "mumu", "emu", "etau", "mutau",
            "ttbar", "t", "ww", "wjets", "zjets_alt", "diboson", "fakes"}

Row(name, type, val_init, err_init, active, applies) ==
    [name |-> name, type |-> type, val_init |-> val_init, err_init |-> err_init,
     active |-> active, flags |-> [c \in Columns |-> c \in applies]]

\* the table: four W branching fractions, three tau branching fractions
\* (rows of type br_type), a normalization and a shape parameter
Table(br_type, lumi_applies, jes_active) ==
    << Row("beta_e",    "poi",   108, 100, TRUE, {}),
       Row("beta_mu",   "poi",   108, 100, TRUE, {}),
       Row("beta_tau",  "poi",   108, 100, TRUE, {}),
       Row("beta_h",    "poi",   676, 100, TRUE, {}),
       Row("br_tau_e",  br_type, 178, 100, TRUE, {}),
       Row("br_tau_mu", br_type, 174, 100, TRUE, {}),
       Row("br_tau_h",  br_type, 648, 100, TRUE, {}),
       Row("lumi",      "norm",  Unit, Unit \div 2, TRUE, lumi_applies),
       Row("jes",       "shape", 0, Unit, jes_active,
           {"ee", "mumu", "emu", "etau", "mutau", "ttbar", "t", "ww", "wjets",
            "zjets_alt", "diboson"}) >>

\* two categories of a signal and a background process, and a vetoed one
TemplatesPlain ==
    [ selections |-> <<"mumu", "emu">>,
      selection_data |->
        ( "mumu" :>
            << [name |-> "cat_gt2_eq1", templates |->
                  ( "data" :> Tpl(<<31, 19>>, <<31, 19>>) ) @@
                  ( "ww" :> SubSamples(21, 2, Tpl(<<10, 5>>, <<1, 1>>)) ) @@
                  ( "zjets_alt" :> Tpl(<<20, 15>>, <<2, 1>>) ) ],
               [name |-> "cat_gt2_eq0", templates |->
                  ( "data" :> Tpl(<<5, 5>>, <<5, 5>>) ) @@
                  ( "ww" :> SubSamples(21, 2, Tpl(<<3, 3>>, <<1, 1>>)) ) ] >> ) @@
        ( "emu" :>
            << [name |-> "cat_gt2_eq1", templates |->
                  ( "data" :> Tpl(<<29, 21>>, <<29, 21>>) ) @@
                  ( "ttbar" :> SubSamples(21, 3, Tpl(<<10, 5>>, <<1, 1>>)) ) @@
                  ( "fakes_ss" :> Tpl(<<20, 15>>, <<2, 1>>) ) ] >> ) ]

\* categories with up/down shape templates and a single-W process
TemplatesMorphed ==
    [ selections |-> <<"mutau", "mumu">>,
      selection_data |->
        ( "mutau" :>
            << [name |-> "cat_eq1_eq1", templates |->
                  ( "data" :> Tpl(<<8, 6>>, <<8, 6>>) ) @@
                  ( "wjets" :> SubSamples(6, 4, TplShape(<<4, 3>>, <<1, 1>>, "jes",
                                                         <<6, 4>>, <<3, 3>>)) ) @@
                  ( "fakes_ss" :> Tpl(<<3, 2>>, <<1, 1>>) ) ] >> ) @@
        ( "mumu" :>
            << [name |-> "cat_eq2_eq1", templates |->
                  ( "data" :> Tpl(<<7, 5>>, <<7, 5>>) ) @@
                  ( "ww" :> SubSamples(21, 17, TplShape(<<6, 2>>, <<1, 1>>, "jes",
                                                        <<7, 3>>, <<5, 2>>)) ) @@
                  ( "diboson" :> Tpl(<<2, 2>>, <<1, 1>>) ) ] >> ) ]

\* categories of a single process, with an empty bin and a bin of no variance
TemplatesSparse ==
    [ selections |-> <<"etau", "ee">>,
      selection_data |->
        ( "etau" :>
            << [name |-> "cat_eq1_eq1", templates |->
                  ( "data" :> Tpl(<<5, 1>>, <<5, 1>>) ) @@
                  ( "wjets" :> SubSamples(6, 3, Tpl(<<4, 0>>, <<1, 1>>)) ) ] >> ) @@
        ( "ee" :>
            << [name |-> "cat_gt2_eq1", templates |->
                  ( "data" :> Tpl(<<6, 4>>, <<6, 4>>) ) @@
                  ( "diboson" :> Tpl(<<5, 5>>, <<0, 1>>) ) ] >> ) ]

AllSelections == {"ee", "mumu", "emu", "etau", "mutau"}
AllProcesses  == {"ttbar", "t", "ww", "wjets", "zjets_alt", "diboson", "fakes"}

Scenarios ==
    { [df_params |-> Table("poi", AllSelections \cup AllProcesses, FALSE),
       templates |-> TemplatesPlain],
      [df_params |-> Table("norm", AllSelections \cup AllProcesses, TRUE),
       templates |-> TemplatesMorphed],
      [df_params |-> Table("norm", (AllSelections \ {"etau"}) \cup AllProcesses, TRUE),
       templates |-> TemplatesSparse] }

\* np.random.randn(data_val.size): one of these
RnumDraws == { [b \in 1..NBins |-> F(IF b % 2 = 1 THEN Unit ELSE 0 - Unit)],
               [b \in 1..NBins |-> F(Unit \div 2)] }

\* process_cut, the default
ProcessCut == Zero

---------------------------------------------------------------------------
(* Calls of objective on one instance.                                     *)

\* parameter vectors: the initial values; a branching fraction on the lower
\* and on the upper bound; a sum of 1 - 0.001; shifted nuisance parameters
ParamsInit   == pval_init
ParamsLow    == [pval_init EXCEPT ![1] = Zero]
ParamsHigh   == [pval_init EXCEPT ![4] = One]
ParamsOffSum == [pval_init EXCEPT ![4] = F(pval_init[4].v - 1)]
ParamsMoved  == [pval_init EXCEPT ![5] = F(pval_init[5].v + Unit \div 10),
                                  ![8] = F(Unit + Unit \div 2), ![9] = One]

\* a toy dataset per category: an empty first bin, one more event elsewhere
ToyData ==
    [cat \in DOMAIN model_data |->
        << Array([b \in 1..NBins |-> IF b = 1 THEN Zero
                                     ELSE XAdd(model_data[cat].data[1][b], One)]),
           Array([b \in 1..NBins |-> IF b = 1 THEN Zero
                                     ELSE XAdd(model_data[cat].data[2][b], One)]) >>]

Args(params, data, cost_type, no_shape, do_mc_stat, randomize_templates) ==
    [params |-> params, data |-> data, cost_type |-> cost_type, no_shape |-> no_shape,
     do_mc_stat |-> do_mc_stat, randomize_templates |-> randomize_templates]

\* every combination of the parameter vectors, the data and the flags
ObjectiveArgs ==
    { Args(p, d, c, n, m, r) :
        p \in {ParamsInit, ParamsLow, ParamsHigh, ParamsOffSum, ParamsMoved},
        d \in {None, ToyData}, c \in {"poisson", "chi2"},
        n \in BOOLEAN, m \in BOOLEAN, r \in BOOLEAN }

\* the calls repeated on one instance: four with the Barlow-Beeston
\* correction, eight without
RepeatedArgs ==
    { Args(ParamsInit,   None,    "poisson", FALSE, TRUE,  FALSE),
      Args(ParamsMoved,  ToyData, "poisson", FALSE, TRUE,  FALSE),
      Args(ParamsLow,    None,    "chi2",    TRUE,  TRUE,  TRUE),
      Args(ParamsInit,   None,    "poisson", FALSE, TRUE,  TRUE),
      Args(ParamsInit,   None,    "poisson", FALSE, FALSE, FALSE),
      Args(ParamsInit,   ToyData, "poisson", FALSE, FALSE, FALSE),
      Args(ParamsOffSum, None,    "poisson", FALSE, FALSE, FALSE),
      Args(ParamsMoved,  None,    "chi2",    FALSE, FALSE, FALSE),
      Args(ParamsInit,   None,    "poisson", TRUE,  FALSE, FALSE),
      Args(ParamsHigh,   None,    "poisson", FALSE, FALSE, TRUE),
      Args(ParamsMoved,  ToyData, "chi2",    TRUE,  FALSE, TRUE),
      Args(ParamsLow,    ToyData, "poisson", FALSE, FALSE, FALSE) }

SetSelf(s) ==
    /\ parameters = s.parameters /\ npoi = s.npoi /\ nnorm = s.nnorm
    /\ nshape = s.nshape /\ pval_init = s.pval_init /\ perr_init = s.perr_init
    /\ ww_amp_init = s.ww_amp_init /\ w_amp_init = s.w_amp_init
    /\ veto_list = s.veto_list /\ categories = s.categories
    /\ model_data = s.model_data /\ bin_np = s.bin_np /\ rnum_cache = s.rnum_cache
    /\ cache = s.cache /\ np_cost = s.np_cost /\ cost_init = s.cost_init

\* the instances constructed
Instances ==
    { FitData(sc.df_params, sc.templates.selections, ProcessList,
              sc.templates.selection_data, ProcessCut, rnum) :
        sc \in Scenarios, rnum \in RnumDraws }

\* a variant that draws the random vectors again on every call
Objective_redraws(a) ==
    \E r \in {objective(Self, a.params, a.data, a.cost_type, a.no_shape,
                         a.do_mc_stat, a.randomize_templates)} :
        /\ bin_np' = r.bin_np
        /\ cache' = r.cache
        /\ np_cost' = r.np_cost
        /\ call' = [op |-> "objective", args |-> a, ret |-> r.ret]
        /\ rnum_cache' = [cat \in DOMAIN rnum_cache |->
                             [b \in 1..Len(rnum_cache[cat]) |->
                                 XNeg(rnum_cache[cat][b])]]
        /\ UNCHANGED <<parameters, npoi, nnorm, nshape, pval_init, perr_init,
                       ww_amp_init, w_amp_init, veto_list, categories, model_data,
                       cost_init>>

\* one call of objective with arguments a
Objective(a) ==
    \E r \in {objective(Self, a.params, a.data, a.cost_type, a.no_shape,
                         a.do_mc_stat, a.randomize_templates)} :
        /\ bin_np' = r.bin_np
        /\ cache' = r.cache
        /\ np_cost' = r.np_cost
        /\ call' = [op |-> "objective", args |-> a, ret |-> r.ret]
        /\ UNCHANGED <<parameters, npoi, nnorm, nshape, pval_init, perr_init,
                       ww_amp_init, w_amp_init, veto_list, categories, model_data,
                       rnum_cache, cost_init>>

(* Repeated calls on one instance. *)

Init ==
    \E s \in Instances :
        /\ SetSelf(s)
        /\ call = [op |-> "__init__", args |-> <<>>, ret |-> s.cost_init]

CallObjective == \E a \in RepeatedArgs : Objective(a)

Next == CallObjective

Spec == Init /\ [][Next]_vars

(* The first call on a new instance, for every combination of arguments. *)

InitCall ==
    \E s \in Instances :
        /\ SetSelf(s)
        /\ \E a \in ObjectiveArgs :
              call = [op |-> "pending", args |-> a, ret |-> s.cost_init]

FirstCall == call.op = "pending" /\ Objective(call.args)

NextCall == FirstCall

SpecCall == InitCall /\ [][NextCall]_vars

(* One call of mixture_model on a new instance. *)

\* the nuisance parameters moved, the first seven parameters kept
ParamsNuisance == [pval_init EXCEPT ![8] = F(Unit + Unit \div 2), ![9] = One]

\* the normalization parameter lumi at 0
ParamsNormZero == [pval_init EXCEPT ![8] = Zero]

\* process_amplitudes handed in: every amplitude doubled
AmplitudesDoubled == Array([i \in 1..Len(ProcessAmplitudes(Self, pval_init)) |->
                              F(2 * Unit)])

MixtureModelArgs ==
    { [params |-> p, category |-> c, process_amplitudes |-> pa,
       no_sum |-> n, randomize |-> r] :
        p \in {ParamsInit, ParamsOffSum, ParamsMoved, ParamsNuisance, ParamsNormZero},
        c \in DOMAIN model_data, pa \in {None, AmplitudesDoubled},
        n \in BOOLEAN, r \in BOOLEAN }

InitMM ==
    \E s \in Instances :
        /\ SetSelf(s)
        /\ \E a \in MixtureModelArgs :
              call = [op |-> "pending", args |-> a, ret |-> <<>>]

CallMixtureModel ==
    /\ call.op = "pending"
    /\ call' = [op |-> "mixture_model", args |-> call.args,
                ret |-> mixture_model(Self, call.args.params, call.args.category,
                                      call.args.process_amplitudes,
                                      call.args.no_sum, call.args.randomize)]
    /\ UNCHANGED engine

NextMM == CallMixtureModel

SpecMM == InitMM /\ [][NextMM]_vars

(* mixture_model and objective calls in any order on one instance. *)

\* the objective calls: with and without the correction, randomized or not
UseObjectiveArgs ==
    { Args(ParamsInit,  None,    "poisson", FALSE, TRUE,  TRUE),
      Args(ParamsMoved, ToyData, "chi2",    FALSE, TRUE,  FALSE),
      Args(ParamsMoved, None,    "poisson", TRUE,  FALSE, TRUE) }

UseMixtureModelArgs ==
    { [params |-> p, category |-> c, process_amplitudes |-> None,
       no_sum |-> n, randomize |-> TRUE] :
        p \in {ParamsInit, ParamsMoved}, c \in DOMAIN model_data, n \in BOOLEAN }

\* a variant that writes the values it returns over the stored data
MixtureModel_stores_result(a) ==
    \E r \in {mixture_model(Self, a.params, a.category, a.process_amplitudes,
                            a.no_sum, a.randomize)} :
        /\ call' = [op |-> "mixture_model", args |-> a, ret |-> r]
        /\ model_data' = [model_data EXCEPT ![a.category].data = r]
        /\ UNCHANGED <<parameters, npoi, nnorm, nshape, pval_init, perr_init,
                       ww_amp_init, w_amp_init, veto_list, categories, bin_np,
                       rnum_cache, cache, np_cost, cost_init>>

\* one call of mixture_model with arguments a
MixtureModel(a) ==
    \E r \in {mixture_model(Self, a.params, a.category, a.process_amplitudes,
                            a.no_sum, a.randomize)} :
        /\ call' = [op |-> "mixture_model", args |-> a, ret |-> r]
        /\ UNCHANGED engine

UseObjective == \E a \in UseObjectiveArgs : Objective(a)

UseMixtureModel == \E a \in UseMixtureModelArgs : MixtureModel(a)

NextUse == UseObjective \/ UseMixtureModel

SpecUse == Init /\ [][NextUse]_vars

(* mixture_model on an instance with several normalization and shape       *)
(* parameters of different applicability.                                  *)

\* a table of three normalization and three shape rows: xs_ww applies to
\* the process ww in the selection mumu only, eff_mu and pileup are
\* inactive, btag does not apply to the selection mumu nor to zjets_alt
TableShapes ==
    << Row("beta_e",    "poi",   108, 100, TRUE, {}),
       Row("beta_mu",   "poi",   108, 100, TRUE, {}),
       Row("beta_tau",  "poi",   108, 100, TRUE, {}),
       Row("beta_h",    "poi",   676, 100, TRUE, {}),
       Row("br_tau_e",  "poi",   178, 100, TRUE, {}),
       Row("br_tau_mu", "poi",   174, 100, TRUE, {}),
       Row("br_tau_h",  "poi",   648, 100, TRUE, {}),
       Row("lumi",      "norm",  Unit, Unit \div 2, TRUE, Columns),
       Row("xs_ww",     "norm",  Unit, Unit \div 2, TRUE, {"mumu", "ww"}),
       Row("eff_mu",    "norm",  Unit, Unit \div 2, FALSE, Columns),
       Row("jes",       "shape", 0, Unit, TRUE, Columns \ {"fakes"}),
       Row("btag",      "shape", 0, Unit, TRUE, {"emu", "ttbar", "ww", "wjets"}),
       Row("pileup",    "shape", 0, Unit, FALSE, Columns) >>

\* the template tpl with the up and down variations of one more parameter
WithShape(tpl, pname, up, down) ==
    [tpl EXCEPT !.cols = (<<pname, "up">> :> Hist(up))
                         @@ (<<pname, "down">> :> Hist(down)) @@ @]

\* templates with the variations of jes, btag and pileup; zjets_alt and
\* wjets have no btag templates
TemplatesShapes ==
    [ selections |-> <<"mumu", "emu">>,
      selection_data |->
        ( "mumu" :>
            << [name |-> "cat_eq2_eq1", templates |->
                  ( "data" :> Tpl(<<40, 30>>, <<40, 30>>) ) @@
                  ( "ww" :> [SubSamples(21, 2,
                       WithShape(WithShape(TplShape(<<12, 8>>, <<2, 1>>, "jes",
                                                    <<16, 9>>, <<10, 6>>),
                                           "btag", <<14, 8>>, <<11, 7>>),
                                 "pileup", <<13, 9>>, <<12, 6>>))
                       EXCEPT ![5] = TplShape(<<10, 8>>, <<1, 1>>, "jes",
                                              <<12, 9>>, <<9, 6>>)] ) @@
                  ( "zjets_alt" :> TplShape(<<20, 16>>, <<3, 2>>, "jes",
                                            <<24, 18>>, <<18, 16>>) ) @@
                  ( "diboson" :> Tpl(<<6, 4>>, <<1, 1>>) ) ] >> ) @@
        ( "emu" :>
            << [name |-> "cat_eq2_eq1", templates |->
                  ( "data" :> Tpl(<<30, 24>>, <<30, 24>>) ) @@
                  ( "ttbar" :> SubSamples(21, 3,
                       WithShape(WithShape(TplShape(<<14, 10>>, <<2, 2>>, "jes",
                                                    <<18, 12>>, <<12, 9>>),
                                           "btag", <<16, 10>>, <<11, 8>>),
                                 "pileup", <<15, 11>>, <<13, 10>>)) ) @@
                  ( "wjets" :> SubSamples(6, 1,
                       TplShape(<<8, 6>>, <<1, 1>>, "jes", <<10, 6>>, <<7, 5>>)) ) @@
                  ( "fakes_ss" :> WithShape(Tpl(<<6, 6>>, <<1, 1>>), "jes",
                                            <<8, 8>>, <<5, 5>>) ) ] >> ) ]

InstancesShapes ==
    { FitData(TableShapes, TemplatesShapes.selections, ProcessList,
              TemplatesShapes.selection_data, ProcessCut, rnum) : rnum \in RnumDraws }

\* the parameters of TableShapes by name: lumi, xs_ww, eff_mu at 8..10,
\* jes, btag, pileup at 11..13
ShapesParams(lumi, xs_ww, eff_mu, jes, btag, pileup) ==
    [pval_init EXCEPT ![8] = F(lumi), ![9] = F(xs_ww), ![10] = F(eff_mu),
                      ![11] = F(jes), ![12] = F(btag), ![13] = F(pileup)]

\* the initial values; jes at +1, at -1; every nuisance parameter moved
MorphParams ==
    { ShapesParams(Unit, Unit, Unit, 0, 0, 0),
      ShapesParams(Unit, Unit, Unit, Unit, 0, 0),
      ShapesParams(Unit, Unit, Unit, 0 - Unit, 0, 0),
      ShapesParams(Unit, Unit, Unit, 0, Unit, 0),
      ShapesParams(Unit, Unit, Unit, 0, 0 - Unit, 0),
      ShapesParams(Unit + Unit \div 2, 2 * Unit, 3 * Unit, Unit \div 2, 0 - Unit,
                   2 * Unit),
      [ShapesParams(Unit \div 2, Unit, Unit, 0 - Unit \div 2, 2 * Unit, Unit)
          EXCEPT ![1] = F(208), ![4] = F(576), ![5] = F(278)] }

InitMorph ==
    \E s \in InstancesShapes :
        /\ SetSelf(s)
        /\ \E p \in MorphParams, c \in DOMAIN model_data, n \in BOOLEAN :
              call = [op |-> "pending",
                      args |-> [params |-> p, category |-> c,
                                process_amplitudes |-> None, no_sum |-> n,
                                randomize |-> FALSE],
                      ret |-> <<>>]

NextMorph == CallMixtureModel

SpecMorph == InitMorph /\ [][NextMorph]_vars

(* Construction from well-formed and malformed inputs, then calls.         *)

\* the table without the applicability column col
DropColumn(table, col) ==
    [i \in 1..Len(table) |->
        [table[i] EXCEPT !.flags = [c \in (DOMAIN table[i].flags) \ {col} |->
                                       table[i].flags[c]]]]

\* a template and a data histogram with a negative variance
TemplatesNegative ==
    [ selections |-> <<"mumu", "ee">>,
      selection_data |->
        ( "mumu" :>
            << [name |-> "cat_gt2_eq1", templates |->
                  ( "data" :> Tpl(<<31, 19>>, <<31, 19>>) ) @@
                  ( "zjets_alt" :> Tpl(<<20, 15>>, <<2, 0 - 1>>) ) @@
                  ( "diboson" :> Tpl(<<10, 5>>, <<1, 1>>) ) ] >> ) @@
        ( "ee" :>
            << [name |-> "cat_gt2_eq1", templates |->
                  ( "data" :> Tpl(<<6, 4>>, <<0 - 6, 4>>) ) @@
                  ( "diboson" :> Tpl(<<5, 5>>, <<1, 1>>) ) ] >> ) ]

\* the inputs of __init__: the parameter table, the selections, their
\* pickled templates and the draws of np.random.randn
BuildInput(df_params, templates, rnum) ==
    [df_params |-> df_params, selections |-> templates.selections,
     selection_data |-> templates.selection_data, rnum |-> rnum]

BuildInputs ==
    { BuildInput(sc.df_params, sc.templates, rnum) :
        sc \in Scenarios
           \cup { [df_params |-> TableShapes, templates |-> TemplatesShapes],
                  [df_params |-> Table("norm", AllSelections \cup AllProcesses, FALSE),
                   templates |-> TemplatesNegative],
                  [df_params |-> DropColumn(Table("norm", AllSelections \cup AllProcesses,
                                                  TRUE), "emu"),
                   templates |-> TemplatesPlain],
                  [df_params |-> DropColumn(Table("norm", AllSelections \cup AllProcesses,
                                                  TRUE), "zjets_alt"),
                   templates |-> TemplatesPlain],
                  [df_params |-> DropColumn(Table("norm", AllProcesses, FALSE),
                                            "zjets_alt"),
                   templates |-> TemplatesPlain] },
        rnum \in RnumDraws }

\* param[sel], param[ds] of a row of the table raise KeyError for a column
\* the table lacks; the lookups are made left to right and stop at the
\* first false operand
RowRaises(param, sel, ds, template) ==
    IF param.type = "shape"
    THEN \/ sel \notin DOMAIN param.flags
         \/ /\ param.flags[sel]
            /\ <<param.name, "up">> \in DOMAIN template.cols
            /\ param.active
            /\ ds \notin DOMAIN param.flags
    ELSE IF param.type = "norm"
    THEN \/ sel \notin DOMAIN param.flags
         \/ param.flags[sel] /\ ds \notin DOMAIN param.flags
    ELSE FALSE

\* the loop over params.iterrows() is entered for a stacked template only
TemplateRaises(rows, sel, ds, template, data_var, process_cut) ==
    /\ ~BelowCut(template.val, data_var, process_cut)
    /\ \E i \in 1..Len(rows) : RowRaises(rows[i], sel, ds, template)

ProcessRaises(rows, sel, ds0, templates, data_var, process_cut) ==
    LET ds1 == IF sel \in SameSignSelections /\ ds0 = "fakes" THEN "fakes_ss" ELSE ds0
        ds  == IF sel \in SameSignSelections /\ ds1 = "fakes_ss" THEN "fakes" ELSE ds1
    IN  /\ ds1 \in DOMAIN templates
        /\ IF ds \in SimpleProcesses
           THEN TemplateRaises(rows, sel, ds, templates[ds1], data_var, process_cut)
           ELSE IF ds \in SubdividedProcesses
           THEN \E i \in 1..Len(templates[ds1]) :
                   TemplateRaises(rows, sel, ds, templates[ds1][i], data_var,
                                  process_cut)
           ELSE FALSE

\* params.query('type == "shape"')[sel] raises for a column the table lacks
MaskRaises(df_params, sel) ==
    \E i \in 1..Len(df_params) : sel \notin DOMAIN df_params[i].flags

CategoryRaises(df_params, sel, processes, templates, process_cut) ==
    \/ \E i \in 1..Len(processes) :
          ProcessRaises(NuisanceRows(df_params), sel, processes[i], templates,
                        templates["data"].var, process_cut)
    \/ MaskRaises(df_params, sel)

\* _initialize_fit_tensor ends in a KeyError
BuildRaises(df_params, selections, processes, selection_data, process_cut) ==
    \E s \in 1..Len(selections) :
        \E c \in 1..Len(selection_data[selections[s]]) :
            CategoryRaises(df_params, selections[s], processes,
                           selection_data[selections[s]][c].templates, process_cut)

InitBuild ==
    /\ Unbuilt
    /\ \E inp \in BuildInputs :
          call = [op |-> "pending", args |-> inp, ret |-> Wide(Zero), raised |-> ""]

\* process_amplitudes[model_data['process_mask']] raises IndexError when the
\* mask and the amplitudes differ in length
IndexRaises(built) ==
    \E cat \in DOMAIN built.model_data :
        /\ cat \notin built.veto_list
        /\ Len(built.model_data[cat].process_mask)
              # Len(ConcatenateAmplitudes(built.ww_amp_init, built.w_amp_init))

\* FitData(path, selections, processes): the instance, or the exception
ConstructWith(processes) ==
    /\ call.op = "pending"
    /\ IF BuildRaises(call.args.df_params, call.args.selections, processes,
                      call.args.selection_data, ProcessCut)
       THEN /\ call' = [call EXCEPT !.op = "__init__", !.raised = "KeyError"]
            /\ UNCHANGED engine
       ELSE \E built \in {Assemble(initialize_parameters(call.args.df_params),
                                   initialize_fit_tensor(call.args.df_params,
                                       call.args.selections, processes,
                                       call.args.selection_data, ProcessCut),
                                   call.args.rnum)} :
            IF IndexRaises(built)
            THEN /\ call' = [call EXCEPT !.op = "__init__", !.raised = "IndexError"]
                 /\ UNCHANGED engine
            ELSE \E s \in {InitializeCost(built)} :
                 /\ parameters' = s.parameters /\ npoi' = s.npoi /\ nnorm' = s.nnorm
                 /\ nshape' = s.nshape /\ pval_init' = s.pval_init
                 /\ perr_init' = s.perr_init /\ ww_amp_init' = s.ww_amp_init
                 /\ w_amp_init' = s.w_amp_init /\ veto_list' = s.veto_list
                 /\ categories' = s.categories /\ model_data' = s.model_data
                 /\ bin_np' = s.bin_np /\ rnum_cache' = s.rnum_cache
                 /\ cache' = s.cache /\ np_cost' = s.np_cost
                 /\ cost_init' = s.cost_init
                 /\ call' = [call EXCEPT !.op = "__init__", !.ret = s.cost_init]

\* the construction with the process list the amplitudes are laid out for
Construct == ConstructWith(ProcessList)

\* a call of objective on an instance that was constructed
BuiltObjective ==
    /\ call.op = "objective" \/ (call.op = "__init__" /\ call.raised = "")
    /\ \E a \in RepeatedArgs : Objective(a)

NextBuild == Construct \/ BuiltObjective

SpecBuild == InitBuild /\ [][NextBuild]_vars

(* Construction with the process list as an argument, then calls.          *)

\* the processes argument of __init__: the list the amplitudes are laid out
\* for; the same with the double-decay processes and the single-template
\* processes in another order; wjets ahead of the double-decay processes;
\* three processes only
ProcessLists ==
    { ProcessList,
      <<"ww", "t", "ttbar", "wjets", "diboson", "fakes", "zjets_alt">>,
      <<"wjets", "ttbar", "t", "ww", "zjets_alt", "diboson", "fakes">>,
      <<"ttbar", "ww", "zjets_alt">> }

ProcessInputs ==
    { [processes |-> pl] @@ BuildInput(sc.df_params, sc.templates, rnum) :
        sc \in { [df_params |-> Table("norm", AllSelections \cup AllProcesses, TRUE),
                  templates |-> TemplatesMorphed],
                 [df_params |-> TableShapes, templates |-> TemplatesShapes],
                 [df_params |-> DropColumn(Table("norm", AllSelections \cup AllProcesses,
                                                 TRUE), "emu"),
                  templates |-> TemplatesPlain] },
        pl \in ProcessLists,
        rnum \in RnumDraws }

InitProcesses ==
    /\ Unbuilt
    /\ \E inp \in ProcessInputs :
          call = [op |-> "pending", args |-> inp, ret |-> Wide(Zero), raised |-> ""]

\* FitData(path, selections, processes) with the processes of the caller
ConstructFrom == ConstructWith(call.args.processes)

NextProcesses == ConstructFrom \/ BuiltObjective

SpecProcesses == InitProcesses /\ [][NextProcesses]_vars

(* Two calls of objective on one instance, each a thread that runs the     *)
(* loop over the categories; a thread may be preempted between two         *)
(* iterations and before the code after the loop.                          *)

\* the arguments of the two calls: both with the Barlow-Beeston correction
ConcurrentArgs ==
    { << Args(ParamsInit,  None,    "poisson", FALSE, TRUE, FALSE),
         Args(ParamsMoved, None,    "poisson", FALSE, TRUE, FALSE) >>,
      << Args(ParamsMoved, ToyData, "chi2",    FALSE, TRUE, FALSE),
         Args(ParamsLow,   None,    "poisson", TRUE,  TRUE, FALSE) >>,
      << Args(ParamsMoved, None,    "chi2",    FALSE, TRUE, TRUE),
         Args(ParamsInit,  ToyData, "poisson", FALSE, TRUE, FALSE) >> }

\* a call that has not entered its loop: loop holds what its iterations
\* gave so far, cost and all
Entered(a) == [args |-> a, loop |-> <<>>, returned |-> FALSE, ret |-> Wide(Zero)]

InitConcurrent ==
    \E s \in Instances :
        /\ SetSelf(s)
        /\ \E pair \in ConcurrentArgs :
              call = [op |-> "objective", threads |-> <<Entered(pair[1]), Entered(pair[2])>>]

\* a variant in which an iteration works on a copy of the bin state and of
\* the cache and leaves the instance alone
ObjectiveIteration_on_copy(t) ==
    LET th == call.threads[t]
        a  == th.args
    IN  /\ Len(th.loop) < Len(categories)
        /\ \E r \in {ObjectiveCategory(Self, categories[Len(th.loop) + 1], a.params,
                                       a.data, a.cost_type, a.no_shape, a.do_mc_stat,
                                       a.randomize_templates,
                                       ProcessAmplitudes(Self, a.params))} :
              /\ call' = [call EXCEPT !.threads[t].loop = Append(@, r)]
              /\ UNCHANGED engine

\* one iteration of the loop of thread t: lines 496-540 for its next
\* category, on the instance as the other thread left it
ObjectiveIteration(t) ==
    LET th == call.threads[t]
        a  == th.args
    IN  /\ Len(th.loop) < Len(categories)
        /\ \E r \in {ObjectiveCategory(Self, categories[Len(th.loop) + 1], a.params,
                                       a.data, a.cost_type, a.no_shape, a.do_mc_stat,
                                       a.randomize_templates,
                                       ProcessAmplitudes(Self, a.params))} :
              /\ bin_np' = [bin_np EXCEPT ![categories[Len(th.loop) + 1]] = r.bin_np]
              /\ cache' = [cache EXCEPT ![categories[Len(th.loop) + 1]] = r.cache]
              /\ call' = [call EXCEPT !.threads[t].loop = Append(@, r)]
              /\ UNCHANGED <<parameters, npoi, nnorm, nshape, pval_init, perr_init,
                             ww_amp_init, w_amp_init, veto_list, categories,
                             model_data, rnum_cache, np_cost, cost_init>>

\* the code after the loop of thread t: lines 543-556
ObjectiveReturn(t) ==
    LET th == call.threads[t]
    IN  /\ Len(th.loop) = Len(categories)
        /\ ~th.returned
        /\ \E r \in {ObjectiveResult(Self, th.args.params, th.loop,
                                     PriorTerms(Self, th.args.params))} :
              /\ np_cost' = r.np_cost
              /\ call' = [call EXCEPT !.threads[t].returned = TRUE,
                                      !.threads[t].ret = r.ret]
              /\ UNCHANGED <<parameters, npoi, nnorm, nshape, pval_init, perr_init,
                             ww_amp_init, w_amp_init, veto_list, categories,
                             model_data, bin_np, rnum_cache, cache, cost_init>>

Iterate == \E t \in 1..2 : ObjectiveIteration(t)

Return == \E t \in 1..2 : ObjectiveReturn(t)

NextConcurrent == Iterate \/ Return

SpecConcurrent == InitConcurrent /\ [][NextConcurrent]_vars

---------------------------------------------------------------------------
(* Properties.                                                             *)

IAbs(n) == IF n < 0 THEN 0 - n ELSE n

\* C6: for data > 0 and model > 0, the Barlow-Beeston scale returned by
\* bb_objective_aux for model_variance = 0 is exactly 1, so the model value
\* scaled by it equals the model value.
C6_ZeroVarianceScaleIsOne ==
    ( /\ call.op = "bb_objective_aux" /\ call.done
      /\ XGt(call.data_val, Zero) /\ XGt(call.exp_val, Zero)
      /\ call.exp_var = Zero )
    => /\ call.ret[1] = One
       /\ XMul(call.exp_val, call.ret[1]) = call.exp_val

C6_Witness ==
    /\ call.op = "bb_objective_aux" /\ call.done
    /\ XGt(call.data_val, Zero) /\ XGt(call.exp_val, Zero)
    /\ call.exp_var = Zero
    /\ call.ret[1] = One

\* the inputs of the call in halves (model value, variance) and in units
\* (data): the grid of the calls
InHalves(x) == x.v \div (Unit \div 2)

\* m^2 * (beta^2 + b*beta + c) for b = var/m - 1, c = -data*var/m^2 and
\* beta = n / Unit, computed exactly and scaled by 4 * Unit^2:
\* beta^2*m^2 + (var - m)*m*beta - data*var
Quadratic(n) ==
    LET m == InHalves(call.exp_val)
        v == InHalves(call.exp_var)
        d == call.data_val.v \div Unit
    IN  n * n * m * m + Unit * (v - m) * m * n - 2 * Unit * Unit * d * v

\* the slope of the quadratic at beta = n / Unit, on the same scale
Slope(n) ==
    LET m == InHalves(call.exp_val)
        v == InHalves(call.exp_var)
    IN  2 * n * m * m + Unit * (v - m) * m

\* n / Unit is not below the larger root of the quadratic: it is right of
\* the vertex and outside the roots
AtOrAboveLargerRoot(n) == Quadratic(n) >= 0 /\ Slope(n) >= 0

\* n / Unit is not above the larger root: it is between the roots or left
\* of the vertex
AtOrBelowLargerRoot(n) == Quadratic(n) <= 0 \/ Slope(n) <= 0

\* the distance, in steps of the grid, within which a root is located
RootTolerance == 2

PairOrder ==
    << <<1, 1>>, <<2, 2>>, <<1, 2>>, <<3, 3>>, <<4, 4>>, <<3, 4>>, <<3, 5>>,
       <<4, 5>>, <<5, 5>>, <<1, 3>>, <<1, 4>>, <<1, 5>>, <<2, 3>>, <<2, 4>>,
       <<2, 5>>, <<1, 6>>, <<2, 6>>, <<3, 6>>, <<4, 6>>, <<5, 6>>, <<6, 6>> >>

UnorderedPairs == {p \in (1..6) \X (1..6) : p[1] <= p[2]}

\* C8 (as amended): signal_amplitudes returns 6 entries for single_w = true,
\* <<b_e, b_mu, b_tau*br_e, b_tau*br_mu, b_tau*br_h, b_h>>, and 21 entries for
\* single_w = false: one for every unordered pair (self-pairs included) of
\* the 6 channels, in a fixed order, equal to the product of the two channel
\* amplitudes, times 2 for a cross pair.
C8_AmplitudeLayout ==
    (call.op = "signal_amplitudes" /\ call.done) =>
        LET w == << call.beta[1], call.beta[2], AMul(call.beta[3], call.br_tau[1]),
                    AMul(call.beta[3], call.br_tau[2]),
                    AMul(call.beta[3], call.br_tau[3]), call.beta[4] >>
        IN  IF call.single_w
            THEN call.ret = w
            ELSE /\ Len(call.ret) = Cardinality(UnorderedPairs)
                 /\ {PairOrder[k] : k \in 1..Len(call.ret)} = UnorderedPairs
                 /\ (OnAmpGrid(call.beta) /\ OnAmpGrid(call.br_tau)) =>
                       \A k \in 1..Len(call.ret) :
                          LET i == PairOrder[k][1]
                              j == PairOrder[k][2]
                          IN  call.ret[k] = (IF i = j THEN 1 ELSE 2) * AMul(w[i], w[j])

C8_Witness ==
    /\ call.op = "signal_amplitudes" /\ call.done /\ ~call.single_w
    /\ OnAmpGrid(call.beta) /\ OnAmpGrid(call.br_tau)
    /\ \A i \in 1..4 : call.beta[i] > 0
    /\ \A i \in 1..3 : call.br_tau[i] > 0
    /\ Len(call.ret) = 21

\* C8 as stated: 6 entries for single_w = true and 20 for single_w = false.
C8_Original ==
    (call.op = "signal_amplitudes" /\ call.done) =>
        Len(call.ret) = IF call.single_w THEN 6 ELSE 20

\* rounding of the six-decimal products: at most three per entry
AmpTol == 3 * 21

\* C9: for beta summing to 1 and br_tau summing to 1, the entries of
\* signal_amplitudes(beta, br_tau, single_w = false) sum to 1: exactly where
\* the products are exact, within the rounding of the products otherwise
\* (beta = [0.108, 0.108, 0.108, 0.676] with br_tau to three decimals).
C9_ProbabilityConservation ==
    ( /\ call.op = "signal_amplitudes" /\ call.done /\ ~call.single_w
      /\ ISum(call.beta) = AmpUnit /\ ISum(call.br_tau) = AmpUnit )
    => /\ IAbs(ISum(call.ret) - AmpUnit) <= AmpTol
       /\ (OnAmpGrid(call.beta) /\ OnAmpGrid(call.br_tau)) => ISum(call.ret) = AmpUnit

C9_Witness ==
    /\ call.op = "signal_amplitudes" /\ call.done /\ ~call.single_w
    /\ call.beta = BetaRef /\ call.br_tau = BrTauRef
    /\ ISum(call.beta) = AmpUnit /\ ISum(call.br_tau) = AmpUnit
    /\ IAbs(ISum(call.ret) - AmpUnit) <= AmpTol

---------------------------------------------------------------------------
(* Properties of objective.                                                *)

\* an objective call has returned
Returned == call.op = "objective"

\* the first four entries of the params of the call, on the grid
CallBeta == [i \in 1..4 |-> call.args.params[i].v]

\* the categories the loop of objective does not skip
Fitted == {cat \in DOMAIN model_data : cat \notin veto_list}

\* a vector of the diagnostic cache holds a NaN
HasNaN(v) == \E b \in 1..Len(v) : IsNaN(v[b])

CachedLoopCost ==
    LET cats == SelectSeq(categories, LAMBDA cat : cat \in Fitted)
        per  == [i \in 1..Len(cats) |->
                    IF call.args.do_mc_stat
                    THEN XAdd(XSum(cache[cats[i]].bb_penalty), XSum(cache[cats[i]].cost))
                    ELSE XSum(cache[cats[i]].cost)]
    IN  XSum(per)

\* the cost before the sum-to-one term: the loop's and the prior terms the
\* call stored
CachedCost == XAdd(CachedLoopCost, XSum(np_cost))

\* C3: the cost contains the term (1 - sum of the four branching
\* fractions)^2 / (2 * eps^2), eps = 1e-6: nothing is added when they sum to
\* 1, and 5e5 is added when they sum to 1 - 0.001.
C3_SumToOneTerm ==
    ( /\ Returned
      /\ \A i \in 1..4 : CallBeta[i] > 0 /\ CallBeta[i] < Unit )
    => /\ ISum(CallBeta) = Unit => call.ret = Wide(CachedCost)
       /\ ISum(CallBeta) = Unit - 1 =>
             call.ret = WAdd(Wide(CachedCost), Wide(F(5 * 100000 * Unit)))

\* a call with the fractions summing to 1 - 0.001 and a finite cost
C3_Witness ==
    /\ Returned
    /\ \A i \in 1..4 : CallBeta[i] > 0 /\ CallBeta[i] < Unit
    /\ ISum(CallBeta) = Unit - 1
    /\ IsFin(CachedCost)
    /\ call.ret = WAdd(Wide(CachedCost), Wide(F(5 * 100000 * Unit)))

\* the instance with the Bin Nuisance State and the cache as the
\* initialisation leaves them, before any call of objective
Fresh ==
    [Self EXCEPT !.bin_np  = [cat \in DOMAIN model_data |-> Ones(NBins)],
                 !.cache   = initialize_minimization_cache(categories),
                 !.np_cost = Zero]

\* C10: the value objective returns does not depend on the Bin Nuisance
\* State and the cache left by the calls made before: after any history it
\* is the value the same call returns on the state before any call.
C10_NoLeak ==
    Returned =>
        call.ret = objective(Fresh, call.args.params, call.args.data,
                             call.args.cost_type, call.args.no_shape,
                             call.args.do_mc_stat, call.args.randomize_templates).ret

\* a call without the correction, made while the Bin Nuisance State holds
\* what an earlier call with other arguments left
C10_Witness ==
    /\ Returned
    /\ ~call.args.do_mc_stat
    /\ IsFin(call.ret)
    /\ bin_np # Fresh.bin_np
    /\ bin_np # objective(Fresh, pval_init, None, "poisson", FALSE, TRUE, FALSE).bin_np

\* every one of the first four entries of the params of the call is in (0, 1)
BetaInRange == \A i \in 1..4 : CallBeta[i] > 0 /\ CallBeta[i] < Unit

\* the model of a category for the call, before any correction, and its data
CallModel(cat) ==
    LET mm == mixture_model(Self, call.args.params, cat, None, FALSE,
                            call.args.randomize_templates)[1]
    IN  IF call.args.no_shape THEN <<XSum(mm)>> ELSE mm

CallData(cat) ==
    LET d == IF call.args.data = None THEN model_data[cat].data[1]
             ELSE call.args.data[cat][1]
    IN  IF call.args.no_shape THEN <<XSum(d)>> ELSE d

\* -d*ln(m) + m + d*ln(d) - d for a bin with m > 0 and d > 0, else nothing
PoissonBin(d, m) ==
    IF XGt(m, Zero) /\ XGt(d, Zero)
    THEN XAdd(XAdd(XMul(XNeg(d), XLn(m)), m), XSub(XMul(d, XLn(d)), d))
    ELSE Zero

\* -d*ln(m) + m for a bin with m > 0 and d > 0, else nothing
PoissonBinAsStated(d, m) ==
    IF XGt(m, Zero) /\ XGt(d, Zero) THEN XAdd(XMul(XNeg(d), XLn(m)), m) ELSE Zero

\* the sum of Term(data, model) over the bins of a category
ManualCategory(cat, Term(_, _)) ==
    LET d == CallData(cat)
        m == CallModel(cat)
    IN  XSum(Array([b \in 1..Len(d) |-> Term(d[b], m[b])]))

\* the sum over all bins of the fitted categories
ManualSum(Term(_, _)) ==
    LET cats == SelectSeq(categories, LAMBDA cat : cat \in Fitted)
    IN  XSum(Array([i \in 1..Len(cats) |-> ManualCategory(cats[i], Term)]))

PoissonCall ==
    /\ Returned /\ call.args.cost_type = "poisson" /\ ~call.args.do_mc_stat
    /\ BetaInRange

PriorOf(i) ==
    XDiv(XSq(XSub(call.args.params[i], pval_init[i])),
         XMul(F(2 * Unit), XSq(perr_init[i])))

\* the prior of the parameters of kind NORM or SHAPE
NuisancePrior ==
    XSum(Array([i \in 1..Len(parameters) |->
                  IF parameters[i].type \in {"norm", "shape"} THEN PriorOf(i)
                  ELSE Zero]))

\* C4 as stated: the prior is added for every parameter of kind NORM or
\* SHAPE and for no parameter of kind POI, whatever the number of POI rows
\* of the table is.
C4_Original ==
    (Returned /\ BetaInRange) =>
        call.ret = WAdd(Wide(XAdd(CachedLoopCost, NuisancePrior)),
                        ConstraintTerm(SubSeq(call.args.params, 1, 4)))

\* C5 as stated: with do_mc_stat, a bin whose model value is exactly 0 is
\* left alone: its scale factor is 1, it adds no penalty, and the returned
\* cost is a finite number.
C5_Original ==
    (Returned /\ call.args.do_mc_stat /\ BetaInRange) =>
        \A cat \in Fitted : \A b \in 1..Len(CallModel(cat)) :
            CallModel(cat)[b] = Zero =>
                /\ bin_np[cat][b] = One
                /\ cache[cat].bb_penalty[b] = Zero
                /\ IsFin(call.ret)

\* the variance of the model of a category for the call, and of its data
CallModelVar(cat) ==
    LET mv == mixture_model(Self, call.args.params, cat, None, FALSE,
                            call.args.randomize_templates)[2]
    IN  IF call.args.no_shape THEN <<XSum(mv)>> ELSE mv

CallDataVar(cat) ==
    LET dv == IF call.args.data = None THEN model_data[cat].data[2]
              ELSE call.args.data[cat][2]
    IN  IF call.args.no_shape THEN <<XSum(dv)>> ELSE dv

\* the scale the solver returns for each bin of a category of the call
SolverScale(cat) ==
    LET d == CallData(cat)
        m == CallModel(cat)
        v == CallModelVar(cat)
    IN  Array([b \in 1..Len(m) |-> bb_objective_aux(One, d[b], m[b], v[b])[1]])

\* the cost of the bins of a category for the model values m
BinCosts(cat, m) ==
    IF call.args.cost_type = "poisson" THEN PoissonNll(CallData(cat), m)
    ELSE Chi2Nll(CallData(cat), CallDataVar(cat), m, CallModelVar(cat))

\* (1 - beta)^2 / (2*model_variance/model_value^2)
PenaltyAsStated(beta, model_value, model_variance) ==
    XDiv(XSq(XSub(One, beta)),
         XDiv(XMul(F(2 * Unit), model_variance), XSq(model_value)))

\* C18 as the specification states it: with do_mc_stat the cost of a bin is
\* taken at beta*model_value, beta the scale the solver returns for
\* (data, model_value, model_variance), and the penalty of the bin is
\* (1 - beta)^2 / (2*model_variance/model_value^2) with the same uncorrected
\* model_value.
C18_Original ==
    (Returned /\ call.args.do_mc_stat) =>
        \A cat \in Fitted :
            LET beta == SolverScale(cat)
                m    == CallModel(cat)
                v    == CallModelVar(cat)
            IN  /\ bin_np[cat] = beta
                /\ cache[cat].cost = BinCosts(cat, VMul(m, beta))
                /\ cache[cat].bb_penalty
                      = Array([b \in 1..Len(m) |->
                                  PenaltyAsStated(beta[b], m[b], v[b])])

\* the templates of a category for the call, bin by bin: model value and
\* variance, data and data variance
CallBins(cat) ==
    LET mm == mixture_model(Self, call.args.params, cat, None, FALSE,
                            call.args.randomize_templates)
        dat == IF call.args.data = None THEN model_data[cat].data
               ELSE call.args.data[cat]
    IN  [model_val |-> mm[1], model_var |-> mm[2], data_val |-> dat[1],
         data_var |-> dat[2]]

\* the scale of the solver for the sums over the bins
IntegratedScale(bins) ==
    bb_objective_aux(One, XSum(bins.data_val), XSum(bins.model_val),
                     XSum(bins.model_var))[1]

\* the cost of the category at the scaled sum of the model
IntegratedCost(bins, beta) ==
    IF call.args.cost_type = "poisson"
    THEN PoissonNll(<<XSum(bins.data_val)>>, <<XMul(XSum(bins.model_val), beta)>>)
    ELSE Chi2Nll(<<XSum(bins.data_val)>>, <<XSum(bins.data_var)>>,
                 <<XMul(XSum(bins.model_val), beta)>>, <<XSum(bins.model_var)>>)

\* C20: with no_shape and do_mc_stat the data, the data variance, the model
\* value and the model variance of a category are summed over its bins
\* before the solve: every fitted category is left with one scale factor,
\* the solver's for the sums, one penalty term, and the cost of one
\* integrated bin.
C20_OneScalePerCategory ==
    (Returned /\ call.args.no_shape /\ call.args.do_mc_stat) =>
        \A cat \in Fitted :
            LET bins == CallBins(cat)
                beta == IntegratedScale(bins)
            IN  /\ bin_np[cat] = <<beta>>
                /\ Len(cache[cat].bb_penalty) = 1
                /\ cache[cat].bb_penalty
                      = BBPenalty(<<beta>>, <<XMul(XSum(bins.model_val), beta)>>,
                                  <<XSum(bins.model_var)>>)
                /\ cache[cat].cost = IntegratedCost(bins, beta)

\* such a call on categories of NBins bins whose bins, solved one by one,
\* have scales that differ from the scale of the sums
C20_Witness ==
    /\ Returned /\ call.args.no_shape /\ call.args.do_mc_stat
    /\ BetaInRange
    /\ \E cat \in Fitted :
          LET bins == CallBins(cat)
          IN  /\ Len(bins.model_val) = NBins /\ NBins > 1
              /\ Len(bin_np[cat]) = 1
              /\ IsFin(bin_np[cat][1]) /\ bin_np[cat][1] # One
              /\ IsFin(cache[cat].bb_penalty[1])
              /\ \E b \in 1..NBins :
                    bb_objective_aux(One, bins.data_val[b], bins.model_val[b],
                                     bins.model_var[b])[1] # bin_np[cat][1]

---------------------------------------------------------------------------
(* Properties of mixture_model.                                            *)

\* the category of the call holds one stacked process, no entry of its
\* normalization mask is set and every shape delta of its tensor is 0
SingleBareProcess ==
    LET md == model_data[call.args.category]
    IN  /\ Len(md.model) = 1
        /\ \A p \in 1..Len(md.norm_mask) : \A j \in 1..Len(md.norm_mask[p]) :
              md.norm_mask[p][j] = 0
        /\ \A b \in 1..Len(md.model[1]) : \A k \in 3..Len(md.model[1][b]) :
              md.model[1][b][k] = Zero

\* the first n parameters of the call are the initial ones
AtReference(n) == \A i \in 1..n : call.args.params[i] = pval_init[i]

\* the nominal values of the only process of the category of the call
NominalValues ==
    LET m == model_data[call.args.category].model[1]
    IN  [b \in 1..Len(m) |-> m[b][1]]

DefaultMixture ==
    /\ call.op = "mixture_model"
    /\ call.args.process_amplitudes = None
    /\ ~call.args.no_sum /\ ~call.args.randomize

CallNormParams == SubSeq(call.args.params, npoi + 1, npoi + nnorm)

\* the product of the values of exactly the parameters whose entry of the
\* mask row is 1
ProductOfMaskedOn(mask_row, norm_params) ==
    XProd(Array([j \in 1..Len(norm_params) |->
                    IF mask_row[j] = 1 THEN norm_params[j] ELSE One]))

\* C17 as the specification states it: the multiplier of every process of
\* the category is the product of the values of the normalization
\* parameters its mask row switches on, whatever the values are, 0 included.
C17_Original ==
    call.op = "mixture_model" =>
        LET md == model_data[call.args.category]
        IN  NormMultipliers(md.norm_mask, CallNormParams)
               = Array([p \in 1..Len(md.norm_mask) |->
                           ProductOfMaskedOn(md.norm_mask[p], CallNormParams)])

\* the sum over the stacked processes of the variance row, bin by bin
RawVariance(cat) ==
    LET model == model_data[cat].model
    IN  Array([b \in 1..Len(model[1]) |->
            XSum(Array([p \in 1..Len(model) |-> model[p][b][2]]))])

\* C24: the variance mixture_model returns is the per-bin sum of the
\* variance rows of the stacked processes as they were stored, and it is
\* the variance returned for the initial parameters: it does not depend on
\* the POI, the normalization or the shape parameters of the call.
C24_VarianceIsRawSum ==
    call.op = "mixture_model" =>
        /\ call.ret[2] = RawVariance(call.args.category)
        /\ call.ret[2]
              = mixture_model(Self, pval_init, call.args.category, None, FALSE,
                              FALSE)[2]

\* a call with a POI, a normalization and a shape parameter moved, whose
\* value differs from the one for the initial parameters and whose variance
\* does not
C24_Witness ==
    /\ call.op = "mixture_model"
    /\ call.args.process_amplitudes = None /\ ~call.args.no_sum
    /\ ~call.args.randomize
    /\ npoi = 7 /\ call.args.params = ParamsMoved
    /\ \E b \in 1..NBins : XGt(call.ret[2][b], Zero)
    /\ call.ret[1] # mixture_model(Self, pval_init, call.args.category, None, FALSE,
                                   FALSE)[1]
    /\ call.ret[2] = RawVariance(call.args.category)

---------------------------------------------------------------------------
(* Properties of the instance over sequences of calls.                     *)

\* the randomized model of a category for the initial parameters
Randomized(self, cat) == mixture_model(self, self.pval_init, cat, None, FALSE, TRUE)

\* C11: repeated evaluations with randomize = true of the same category and
\* the same params on one instance return identical values: no call of
\* mixture_model or objective re-draws or modifies the per-category random
\* vector, and the randomized model is the same before and after every call.
C11_RandomizedRepeatable ==
    [][ /\ rnum_cache' = rnum_cache
        /\ \A cat \in DOMAIN model_data :
              Randomized(Self', cat) = Randomized(Self, cat) ]_vars

\* a randomized mixture_model call that returned values displaced from the
\* plain ones, on an instance whose bin factors an earlier call has moved
C11_Witness ==
    /\ call.op = "mixture_model" /\ call.args.randomize /\ ~call.args.no_sum
    /\ call.ret[1] # mixture_model(Self, call.args.params, call.args.category,
                                   None, FALSE, FALSE)[1]
    /\ call.ret = mixture_model(Self, call.args.params, call.args.category,
                                None, FALSE, TRUE)
    /\ \E cat \in DOMAIN model_data : bin_np[cat] # Ones(Len(bin_np[cat]))

\* C12: no call of mixture_model or objective changes the parameter table,
\* the initial values and uncertainties, the reference amplitudes or the
\* model tensor, masks and stored data of any category; only the bin
\* factors and the diagnostic cache change.
C12_TemplatesNeverMutated ==
    [][UNCHANGED <<parameters, npoi, nnorm, nshape, pval_init, perr_init,
                   ww_amp_init, w_amp_init, veto_list, categories, model_data>>]_vars

\* an objective call with the correction has returned and moved the bin
\* factors and the cache
C12_Witness ==
    /\ Returned /\ call.args.do_mc_stat
    /\ \E cat \in Fitted : /\ bin_np[cat] # Ones(Len(bin_np[cat]))
                           /\ "bb_penalty" \in DOMAIN cache[cat]
    /\ np_cost # Zero


---------------------------------------------------------------------------
(* Properties of construction.                                             *)

\* a histogram of variances with a negative entry
NegativeIn(var) == \E b \in 1..Len(var) : var[b].k = "fin" /\ var[b].v < 0

\* the pickled templates hold a negative variance
NegativeVarianceGiven(selection_data) ==
    \E sel \in DOMAIN selection_data :
        \E c \in 1..Len(selection_data[sel]) :
            LET templates == selection_data[sel][c].templates
            IN  \E ds \in DOMAIN templates :
                   IF ds \in SubdividedProcesses
                   THEN \E i \in 1..Len(templates[ds]) : NegativeIn(templates[ds][i].var)
                   ELSE NegativeIn(templates[ds].var)

\* the instance holds a negative variance: data[1] is the data variance,
\* model[p][b][2] the variance of process p in bin b
NegativeVarianceStored ==
    \E cat \in DOMAIN model_data :
        \/ NegativeIn(model_data[cat].data[2])
        \/ \E p \in 1..Len(model_data[cat].model) :
              \E b \in 1..Len(model_data[cat].model[p]) :
                 LET var == model_data[cat].model[p][b][2]
                 IN  var.k = "fin" /\ var.v < 0

\* C13 as the specification states it: a template with a negative variance
\* makes the construction fail, and no objective value is computed by an
\* instance that holds a negative variance.
C13_Original ==
    /\ (call.op = "__init__" /\ NegativeVarianceGiven(call.args.selection_data))
          => call.raised # ""
    /\ call.op = "objective" => ~NegativeVarianceStored

\* the selections in use and the processes whose templates some category has
ColumnsInUse(selections, processes, selection_data) ==
    {selections[s] : s \in 1..Len(selections)}
    \cup {processes[i] : i \in
            {j \in 1..Len(processes) :
                \E s \in 1..Len(selections) :
                   \E c \in 1..Len(selection_data[selections[s]]) :
                      processes[j] \in DOMAIN selection_data[selections[s]][c].templates}}

\* a norm or shape row of the table lacks a column in use
LacksColumn(df_params, selections, processes, selection_data) ==
    \E i \in 1..Len(df_params) :
        /\ df_params[i].type \in {"norm", "shape"}
        /\ ColumnsInUse(selections, processes, selection_data)
              \ DOMAIN df_params[i].flags # {}

\* C14 as the specification states it: the construction fails whenever a
\* norm or shape row lacks the column of a selection or of a process in use.
C14_Original ==
    (call.op = "__init__"
       /\ LacksColumn(call.args.df_params, call.args.selections, ProcessList,
                      call.args.selection_data))
       => call.raised = "KeyError"


\* the instance a successful construction returned
Constructed == call.op = "__init__" /\ call.raised = ""

\* the key under which a process is looked up in the templates of sel
TemplateKey(sel, ds) ==
    IF sel \in SameSignSelections /\ ds = "fakes" THEN "fakes_ss" ELSE ds

Falses(n) == [i \in 1..n |-> FALSE]

RECURSIVE MaskWithAbsent(_, _, _, _)
\* process_mask as the claim describes it: false entries, 21, 6 or 1 of
\* them, for a process without templates; for the others the entries the
\* build gives their templates
MaskWithAbsent(df_params, sel, processes, templates) ==
    IF processes = <<>> THEN <<>>
    ELSE LET ds == TemplateKey(sel, Last(processes))
             slots == StackProcess(NuisanceRows(df_params), sel, Last(processes),
                                   templates, templates["data"].var, ProcessCut)
         IN  MaskWithAbsent(df_params, sel, Front(processes), templates)
             \o (IF ds \in DOMAIN templates
                 THEN [i \in 1..Len(slots) |-> slots[i].stacked]
                 ELSE IF ds \in {"ttbar", "t", "ww"} THEN Falses(21)
                 ELSE IF ds = "wjets" THEN Falses(6)
                 ELSE Falses(1))

\* C15: a process of the process list without templates in a category adds
\* only false entries to process_mask (21 for ttbar, t and ww, 6 for wjets,
\* 1 otherwise) and no row to the model tensor or to norm_mask, and the
\* construction goes on with the processes that follow: it fails for a
\* missing column of the parameter table only.
C15_AbsentProcessMasked ==
    /\ (call.op = "__init__" /\ call.raised # "")
          => BuildRaises(call.args.df_params, call.args.selections, ProcessList,
                         call.args.selection_data, ProcessCut)
    /\ Constructed =>
        \A cat \in DOMAIN model_data :
            LET mask == MaskWithAbsent(call.args.df_params, cat[1], ProcessList,
                                       TemplatesOf(call.args.selection_data, cat))
                rows == Cardinality({i \in 1..Len(mask) : mask[i]})
            IN  /\ model_data[cat].process_mask = mask
                /\ Len(model_data[cat].model) = rows
                /\ Len(model_data[cat].norm_mask) = rows

\* an instance was built from a category without ttbar, t, wjets, diboson
\* and fakes, whose processes ww and zjets_alt were stacked all the same
C15_Witness ==
    /\ Constructed
    /\ \E cat \in DOMAIN model_data :
          LET templates == TemplatesOf(call.args.selection_data, cat)
          IN  /\ {"ttbar", "t", "wjets", "diboson", TemplateKey(cat[1], "fakes")}
                    \cap DOMAIN templates = {}
              /\ {"ww", "zjets_alt"} \subseteq DOMAIN templates
              /\ Len(model_data[cat].process_mask) = 21 + 21 + 21 + 6 + 1 + 1 + 1
              /\ Len(model_data[cat].model) = 2


---------------------------------------------------------------------------
(* Properties of concurrent calls.                                         *)

\* both calls have returned
BothReturned == \A t \in 1..2 : call.threads[t].returned

\* what the call of thread t leaves when it runs alone on the instance
Alone(t) ==
    LET a == call.threads[t].args
    IN  objective(Self, a.params, a.data, a.cost_type, a.no_shape, a.do_mc_stat,
                  a.randomize_templates)

\* the entries of category cat are those the call of thread t computes
EntryOf(alone, cat) == bin_np[cat] = alone.bin_np[cat] /\ cache[cat] = alone.cache[cat]

\* C16: two calls with the Barlow-Beeston correction that interleave between
\* categories write the shared bin state and cache in place: when both have
\* returned, the entries of every fitted category are those of one of the
\* two calls, whichever ran that category last (the witness is a final state
\* with entries of both, which neither call leaves alone).
C16_EntriesOfEitherCall ==
    BothReturned =>
        LET first == Alone(1)
            second == Alone(2)
        IN  \A cat \in Fitted : EntryOf(first, cat) \/ EntryOf(second, cat)

\* both calls returned; one category holds the entries of the first call and
\* not of the second, another those of the second and not of the first
C16_Witness ==
    /\ BothReturned
    /\ LET first == Alone(1)
           second == Alone(2)
       IN  /\ \E c1, c2 \in Fitted :
                 /\ EntryOf(first, c1) /\ ~EntryOf(second, c1)
                 /\ EntryOf(second, c2) /\ ~EntryOf(first, c2)
           /\ <<bin_np, cache>> # <<first.bin_np, first.cache>>
           /\ <<bin_np, cache>> # <<second.bin_np, second.cache>>


---------------------------------------------------------------------------
(* Properties of the Bin Nuisance State.                                   *)

\* C21 as the specification states it: after the construction and after any
\* sequence of objective calls the Bin Nuisance State of every category is
\* a vector with one entry per bin of the category.
C21_Original ==
    \A cat \in DOMAIN model_data :
        Len(bin_np[cat]) = Len(model_data[cat].data[1])


---------------------------------------------------------------------------
(* Properties of the morphing.                                             *)

\* the positions, in the parameter table, of the shape parameters that
\* apply to selection sel, in the order of the table
AppliedShapes(sel) ==
    SelectSeq([i \in 1..Len(parameters) |-> i],
              LAMBDA i : parameters[i].type = "shape" /\ parameters[i].flags[sel])

\* nominal + sum over the shape parameters of 0.5*s^2*delta_plus +
\* 0.5*s*delta_minus for a tensor row [value, variance, delta_plus..,
\* delta_minus..] and the values s of the parameters
Morphed(row, s) ==
    XAdd(row[1],
         XSum(Array([j \in 1..Len(s) |->
                 XAdd(XMul(row[2 + j], XMul(Half, XSq(s[j]))),
                      XMul(row[2 + Len(s) + j], XMul(Half, s[j])))])))

\* a call of mixture_model with no_sum has returned: its value is the
\* morphed tensor, process by process
MorphCall == call.op = "mixture_model" /\ call.args.no_sum

\* the values, in the call, of the shape parameters of the category
CallShapes ==
    LET at == AppliedShapes(call.args.category[1])
    IN  [j \in 1..Len(at) |-> call.args.params[at[j]]]

\* C22: for every stacked process and every bin the morphed value is
\* nominal + 0.5*s^2*delta_plus + 0.5*s*delta_minus summed over the shape
\* parameters of the category, s the value in params of the parameter the
\* deltas belong to; the variance row has no part in it.
C22_QuadraticMorphing ==
    MorphCall =>
        LET md == model_data[call.args.category]
        IN  \A p \in 1..Len(md.model) : \A b \in 1..Len(md.model[p]) :
               /\ Len(md.model[p][b]) = 2 + 2 * Len(CallShapes)
               /\ call.ret[1][p][b] = Morphed(md.model[p][b], CallShapes)

\* a category of three shape parameters with three different values, and a
\* process whose deltas of two of them are not zero and whose morphed value
\* is not the nominal one
C22_Witness ==
    /\ MorphCall
    /\ Len(CallShapes) = 3
    /\ Cardinality({CallShapes[j] : j \in 1..3}) = 3
    /\ LET md == model_data[call.args.category]
       IN  \E p \in 1..Len(md.model) : \E b \in 1..Len(md.model[p]) :
              /\ md.model[p][b][3] # Zero /\ md.model[p][b][4] # Zero
              /\ md.model[p][b][3] # md.model[p][b][4]
              /\ md.model[p][b][2] # Zero
              /\ call.ret[1][p][b] # md.model[p][b][1]
              /\ call.ret[1][p][b] = Morphed(md.model[p][b], CallShapes)


RECURSIVE SlotsOf(_, _, _)
\* the templates behind the slots of process_mask, in the order of the
\* process list: for every slot the process it belongs to and its template
\* (none for the slots of a process without templates)
SlotsOf(sel, processes, templates) ==
    IF processes = <<>> THEN <<>>
    ELSE LET ds  == Last(processes)
             key == TemplateKey(sel, ds)
             n   == IF ds \in {"ttbar", "t", "ww"} THEN 21
                    ELSE IF ds = "wjets" THEN 6 ELSE 1
         IN  SlotsOf(sel, Front(processes), templates)
             \o (IF key \notin DOMAIN templates
                 THEN [i \in 1..n |-> [ds |-> ds, present |-> FALSE, sub |-> i,
                                       template |-> <<>>]]
                 ELSE IF ds \in SubdividedProcesses
                 THEN [i \in 1..Len(templates[key]) |->
                          [ds |-> ds, present |-> TRUE, sub |-> i,
                           template |-> templates[key][i]]]
                 ELSE <<[ds |-> ds, present |-> TRUE, sub |-> 1,
                         template |-> templates[key]]>>)

\* the slot of the k-th true entry of a mask
TrueSlots(mask) == SelectSeq([i \in 1..Len(mask) |-> i], LAMBDA i : mask[i])

\* the process and the template of row p of the tensor of category cat
RowSlot(selection_data, cat, p) ==
    SlotsOf(cat[1], ProcessList, TemplatesOf(selection_data, cat))
        [TrueSlots(model_data[cat].process_mask)[p]]

\* row i of the table is a shape parameter that is active, applies to the
\* selection and to the process, and has an up template
Varied(i, sel, slot) ==
    /\ parameters[i].type = "shape" /\ parameters[i].active
    /\ parameters[i].flags[sel] /\ parameters[i].flags[slot.ds]
    /\ <<parameters[i].name, "up">> \in DOMAIN slot.template.cols

\* the rows of the table that vary the template of a slot
VariedBy(sel, slot) == {i \in 1..Len(parameters) : Varied(i, sel, slot)}

\* C23: for a stacked process varied by a single shape parameter s the
\* morphed value is the nominal template at s = 0, the up template at
\* s = +1 and the down template at s = -1, whatever the values of the other
\* parameters.
C23_AnchoredAtTemplates ==
    MorphCall =>
        LET cat == call.args.category
        IN  \A p \in 1..Len(model_data[cat].model) :
               LET slot == RowSlot(TemplatesShapes.selection_data, cat, p)
                   by   == VariedBy(cat[1], slot)
               IN  Cardinality(by) = 1 =>
                      LET i == CHOOSE i \in by : TRUE
                          s == call.args.params[i]
                          name == parameters[i].name
                      IN  /\ s = Zero => call.ret[1][p] = slot.template.val
                          /\ s = One
                                => call.ret[1][p] = slot.template.cols[<<name, "up">>]
                          /\ s = XNeg(One)
                                => call.ret[1][p] = slot.template.cols[<<name, "down">>]

\* the call returned, for a process varied by one parameter only, the
\* template of the given side for the value s of that parameter, and that
\* template is not the nominal one
C23_WitnessAt(s, side) ==
    /\ MorphCall
    /\ LET cat == call.args.category
       IN  \E p \in 1..Len(model_data[cat].model) :
              LET slot == RowSlot(TemplatesShapes.selection_data, cat, p)
                  by   == VariedBy(cat[1], slot)
              IN  /\ Cardinality(by) = 1
                  /\ \E i \in by :
                        /\ call.args.params[i] = s
                        /\ call.ret[1][p] = slot.template.cols[<<parameters[i].name, side>>]
                        /\ call.ret[1][p] # slot.template.val

\* the down template at s = -1
C23_Witness == C23_WitnessAt(XNeg(One), "down")


---------------------------------------------------------------------------
(* Properties of the tensor a construction leaves.                         *)

\* sum(nominal) / sqrt(sum(data variance)) of a template of category cat
Significance(selection_data, cat, template) ==
    XDiv(XSum(template.val),
         XSqrt(XSum(TemplatesOf(selection_data, cat)["data"].var)))

\* the slots of process_mask of category cat with their templates
CategorySlots(selection_data, cat) ==
    SlotsOf(cat[1], ProcessList, TemplatesOf(selection_data, cat))

\* C25 (as amended): a present process or sub-sample is masked out and
\* skipped when its significance is less than or equal to process_cut, and
\* is stacked, with a true process_mask entry, when the significance is
\* above the cut or is not a number.
C25_MaskedAtOrBelowCut ==
    Constructed =>
        \A cat \in DOMAIN model_data :
            LET slots == CategorySlots(call.args.selection_data, cat)
            IN  \A i \in 1..Len(slots) :
                   slots[i].present =>
                      (model_data[cat].process_mask[i]
                          <=> ~XLe(Significance(call.args.selection_data, cat,
                                                slots[i].template),
                                   ProcessCut))

\* an instance with a template whose significance equals the cut, masked
\* out, next to one above the cut, stacked
C25_Witness ==
    /\ Constructed
    /\ \E cat \in DOMAIN model_data :
          LET slots == CategorySlots(call.args.selection_data, cat)
          IN  \E i, j \in 1..Len(slots) :
                 /\ slots[i].present /\ slots[j].present
                 /\ Significance(call.args.selection_data, cat, slots[i].template)
                       = ProcessCut
                 /\ ~model_data[cat].process_mask[i]
                 /\ XGt(Significance(call.args.selection_data, cat, slots[j].template),
                        ProcessCut)
                 /\ model_data[cat].process_mask[j]

\* C25 as the specification states it: masked out when the significance is
\* below the cut, stacked otherwise, also when it equals the cut.
C25_Original ==
    Constructed =>
        \A cat \in DOMAIN model_data :
            LET slots == CategorySlots(call.args.selection_data, cat)
            IN  \A i \in 1..Len(slots) :
                   slots[i].present =>
                      (model_data[cat].process_mask[i]
                          <=> ~XGt(ProcessCut,
                                   Significance(call.args.selection_data, cat,
                                                slots[i].template)))


\* up - nominal and down - nominal of the template of a slot for row i of
\* the table
UpShift(i, slot) ==
    VSub(slot.template.cols[<<parameters[i].name, "up">>], slot.template.val)

DownShift(i, slot) ==
    VSub(slot.template.cols[<<parameters[i].name, "down">>], slot.template.val)

\* the deltas of the template of a slot for row i of the table, as stated
DeltaPlus(i, sel, slot) ==
    IF Varied(i, sel, slot) THEN VAdd(UpShift(i, slot), DownShift(i, slot))
    ELSE ZerosLike(slot.template.val)

DeltaMinus(i, sel, slot) ==
    IF Varied(i, sel, slot) THEN VSub(UpShift(i, slot), DownShift(i, slot))
    ELSE ZerosLike(slot.template.val)

\* C26: for every stacked process and every shape parameter that applies to
\* the selection, the tensor holds delta_plus = (up - nominal) +
\* (down - nominal) and delta_minus = (up - nominal) - (down - nominal) when
\* the parameter is active, applies to the process and the process has its
\* up template, and zeros for both otherwise.
C26_Deltas ==
    Constructed =>
        \A cat \in DOMAIN model_data :
            LET at == AppliedShapes(cat[1])
                model == model_data[cat].model
            IN  \A p \in 1..Len(model) :
                   LET slot == RowSlot(call.args.selection_data, cat, p)
                   IN  \A j \in 1..Len(at) : \A b \in 1..Len(model[p]) :
                          /\ model[p][b][2 + j] = DeltaPlus(at[j], cat[1], slot)[b]
                          /\ model[p][b][2 + Len(at) + j]
                                = DeltaMinus(at[j], cat[1], slot)[b]

\* a stacked process with the templates of two shape parameters that apply
\* to the selection: the one varies it, with delta_plus and delta_minus
\* apart; the other does not (inactive, or not applying to the process)
\* though its up template differs from the nominal, and has zeros
C26_Witness ==
    /\ Constructed
    /\ \E cat \in DOMAIN model_data :
          LET at == AppliedShapes(cat[1])
              model == model_data[cat].model
          IN  \E p \in 1..Len(model) :
                 LET slot == RowSlot(call.args.selection_data, cat, p)
                 IN  \E j, k \in 1..Len(at) : \E b \in 1..Len(model[p]) :
                        /\ Varied(at[j], cat[1], slot)
                        /\ model[p][b][2 + j] # Zero
                        /\ model[p][b][2 + Len(at) + j] # Zero
                        /\ model[p][b][2 + j] # model[p][b][2 + Len(at) + j]
                        /\ ~Varied(at[k], cat[1], slot)
                        /\ <<parameters[at[k]].name, "up">> \in DOMAIN slot.template.cols
                        /\ UpShift(at[k], slot)[b] # Zero
                        /\ model[p][b][2 + k] = Zero
                        /\ model[p][b][2 + Len(at) + k] = Zero


\* ---------------------------------------------------------------------
\* Properties of norm_mask
\* ---------------------------------------------------------------------

\* the rows of the table that are normalization parameters, in table order
NormRows ==
    SelectSeq([i \in 1..Len(parameters) |-> i],
              LAMBDA i : parameters[i].type = "norm")

\* row i of the table applies to the selection and to the process and is
\* active
Scales(i, sel, ds) ==
    parameters[i].flags[sel] /\ parameters[i].flags[ds] /\ parameters[i].active

\* C27: the entry of norm_mask for a stacked process and a normalization
\* parameter is 1 exactly when the parameter applies to the selection,
\* applies to the process and is active, and 0 otherwise; the rows of the
\* sub-samples of a process take the applicability of the process.
C27_NormMask ==
    Constructed =>
        \A cat \in DOMAIN model_data :
            LET norm_mask == model_data[cat].norm_mask
            IN  \A p \in 1..Len(norm_mask) :
                   LET slot == RowSlot(call.args.selection_data, cat, p)
                   IN  /\ Len(norm_mask[p]) = Len(NormRows)
                       /\ \A j \in 1..Len(NormRows) :
                             norm_mask[p][j]
                                = IF Scales(NormRows[j], cat[1], slot.ds)
                                  THEN 1 ELSE 0

\* two sub-samples of one process stacked in a category, both with 1 for a
\* parameter that has 0 on the row of another process of the category, and
\* both with 0 for an inactive parameter that applies to the selection and
\* the process
C27_Witness ==
    /\ Constructed
    /\ \E cat \in DOMAIN model_data :
          LET norm_mask == model_data[cat].norm_mask
          IN  \E p, q, r \in 1..Len(norm_mask) : \E j, k \in 1..Len(NormRows) :
                 LET sp == RowSlot(call.args.selection_data, cat, p)
                     sq == RowSlot(call.args.selection_data, cat, q)
                     sr == RowSlot(call.args.selection_data, cat, r)
                 IN  /\ sp.ds \in SubdividedProcesses
                     /\ sq.ds = sp.ds /\ sq.sub # sp.sub
                     /\ sr.ds # sp.ds
                     /\ norm_mask[p][j] = 1 /\ norm_mask[q][j] = 1
                     /\ norm_mask[r][j] = 0
                     /\ ~parameters[NormRows[k]].active
                     /\ parameters[NormRows[k]].flags[cat[1]]
                     /\ parameters[NormRows[k]].flags[sp.ds]
                     /\ norm_mask[p][k] = 0 /\ norm_mask[q][k] = 0


\* ---------------------------------------------------------------------
\* Properties of the rows against process_mask
\* ---------------------------------------------------------------------

\* the norm_vector of the process of a slot
NormVectorOf(sel, slot) ==
    [j \in 1..Len(NormRows) |->
        IF Scales(NormRows[j], sel, slot.ds) THEN 1 ELSE 0]

\* C28: in every category built, norm_mask and the model tensor have as
\* many rows as process_mask has true entries, and the k-th row of each is
\* that of the process of the k-th true entry (its nominal values and
\* variances, its norm_vector), whichever processes are absent, at or below
\* the cut, or stacked.
C28_RowsFollowMask ==
    Constructed =>
        \A cat \in DOMAIN model_data :
            LET md    == model_data[cat]
                slots == CategorySlots(call.args.selection_data, cat)
                true  == TrueSlots(md.process_mask)
            IN  /\ Len(md.process_mask) = Len(slots)
                /\ Len(md.model) = Len(true)
                /\ Len(md.norm_mask) = Len(true)
                /\ \A k \in 1..Len(true) :
                      LET slot == slots[true[k]]
                      IN  /\ slot.present
                          /\ \A b \in 1..Len(md.model[k]) :
                                /\ md.model[k][b][1] = slot.template.val[b]
                                /\ md.model[k][b][2] = slot.template.var[b]
                          /\ md.norm_mask[k] = NormVectorOf(cat[1], slot)

\* a category with the slots of an absent process, then a slot at or below
\* the cut, then a stacked one, then one at or below the cut, then a
\* stacked one of other values; the last row has another norm_vector
C28_Witness ==
    /\ Constructed
    /\ \E cat \in DOMAIN model_data :
          LET md    == model_data[cat]
              slots == CategorySlots(call.args.selection_data, cat)
              true  == TrueSlots(md.process_mask)
          IN  \E a, c, e \in 1..Len(slots) : \E k \in 1..(Len(true) - 1) :
                 /\ ~slots[a].present
                 /\ a < c /\ c < true[k] /\ true[k] < e /\ e < true[k + 1]
                 /\ slots[c].present /\ ~md.process_mask[c]
                 /\ slots[e].present /\ ~md.process_mask[e]
                 /\ md.model[k] # md.model[k + 1]
                 /\ md.norm_mask[k] # md.norm_mask[Len(true)]


\* ---------------------------------------------------------------------
\* Properties of process_mask against the process amplitudes
\* ---------------------------------------------------------------------

\* what the entries of np.concatenate([ww_amp, ww_amp, ww_amp, w_amp,
\* [1, 1, 1]]) stand for: the decay channels of a double-decay process,
\* three times, those of the single-decay process, and three times 1.0
AmplitudeEntries ==
    LET ww_amp == [c \in 1..Len(ww_amp_init) |-> <<"ww", c>>]
        w_amp  == [c \in 1..Len(w_amp_init) |-> <<"w", c>>]
    IN  ww_amp \o ww_amp \o ww_amp \o w_amp \o << <<"1", 1>>, <<"1", 1>>, <<"1", 1>> >>

\* what a slot of process_mask stands for: the decay channel of its
\* sub-sample for a sub-decomposed process, 1.0 for the others
SlotEntry(slot) ==
    IF slot.ds \in {"ttbar", "t", "ww"} THEN <<"ww", slot.sub>>
    ELSE IF slot.ds = "wjets" THEN <<"w", slot.sub>>
    ELSE <<"1", 1>>

\* every sub-decomposed process that has templates in the category has one
\* sub-sample per decay channel
OneSubSamplePerChannel(cat) ==
    LET templates == TemplatesOf(call.args.selection_data, cat)
    IN  \A ds \in (DOMAIN templates) \cap SubdividedProcesses :
            Len(templates[ds]) = (IF ds = "wjets" THEN Len(w_amp_init)
                                  ELSE Len(ww_amp_init))

\* the slots of a category of an instance built from the processes given
BuiltSlots(cat) ==
    SlotsOf(cat[1], call.args.processes, TemplatesOf(call.args.selection_data, cat))

\* C29: in every category process_mask is as long as the process
\* amplitudes of objective and mixture_model, and slot i of the mask stands
\* for the process kind and decay channel of entry i of the amplitudes,
\* whichever processes are absent or at or below the cut, given one
\* sub-sample per decay channel for every present sub-decomposed process.
C29_Original ==
    Constructed =>
        \A cat \in DOMAIN model_data :
            OneSubSamplePerChannel(cat)
                => /\ Len(model_data[cat].process_mask) = Len(AmplitudeEntries)
                   /\ Len(BuiltSlots(cat)) = Len(AmplitudeEntries)
                   /\ \A i \in 1..Len(AmplitudeEntries) :
                         SlotEntry(BuiltSlots(cat)[i]) = AmplitudeEntries[i]


\* ---------------------------------------------------------------------
\* Properties of the vetoed categories
\* ---------------------------------------------------------------------

\* the categories of the instance that veto_list names
Vetoed == (DOMAIN model_data) \cap veto_list

\* every value of a sequence of values plus one, or doubled
Shifted(s) == [b \in 1..Len(s) |-> XAdd(s[b], One)]

Doubled(s) == [b \in 1..Len(s) |-> XAdd(s[b], s[b])]

\* a category with other templates: every nominal value, variance and delta
\* of every stacked process shifted
OtherTemplates(md) ==
    [md EXCEPT !.model = [p \in 1..Len(@) |-> [b \in 1..Len(@[p]) |-> Shifted(@[p][b])]]]

\* a category with other stored data: values doubled, variances shifted
OtherData(md) == [md EXCEPT !.data = <<Doubled(@[1]), Shifted(@[2])>>]

\* a category with no events stored
NoData(md) == [md EXCEPT !.data = <<ZerosLike(@[1]), ZerosLike(@[2])>>]

\* the instance with the entry of category v changed in one of these ways
ChangedSelves(v) ==
    { [Self EXCEPT !.model_data[v] = OtherTemplates(@)],
      [Self EXCEPT !.model_data[v] = OtherData(@)],
      [Self EXCEPT !.model_data[v] = NoData(OtherTemplates(@))] }

\* the data handed in with the entry of category v changed
ChangedData(data, v) ==
    IF data = None THEN {None}
    ELSE { data, [data EXCEPT ![v] = <<Doubled(@[1]), Shifted(@[2])>>],
           [data EXCEPT ![v] = <<ZerosLike(@[1]), ZerosLike(@[2])>>] }

\* the value objective returns on an instance for the arguments a with the
\* data given
ReturnedOn(self, a, data) ==
    objective(self, a.params, data, a.cost_type, a.no_shape, a.do_mc_stat,
              a.randomize_templates).ret

\* the cost of the fit of one category for the arguments a, vetoed or not
FitCost(self, category, a) ==
    CategoryFit(self, category,
                mixture_model(self, a.params, category,
                              ProcessAmplitudes(self, a.params), FALSE,
                              a.randomize_templates),
                IF a.data = None THEN self.model_data[category].data
                ELSE a.data[category],
                a.cost_type, a.no_shape, a.do_mc_stat).cost

\* the costs of the categories that are not vetoed, in the order of
\* self._categories, plus the priors and the sum-to-one term
TotalOfNonVetoed(self, a) ==
    LET kept == SelectSeq(self.categories, LAMBDA c : c \notin self.veto_list)
    IN  WAdd(Wide(XAdd(XSum(Array([i \in 1..Len(kept) |-> FitCost(self, kept[i], a)])),
                       XSum(PriorTerms(self, a.params)))),
             ConstraintTerm(SubSeq(a.params, 1, 4)))

\* C30: a category of veto_list adds nothing to the cost: the value a call
\* of objective returns is the one it returns with other templates or other
\* stored data in that category and with other entries for it in the data
\* handed in, and (when the branching fractions are in range) it is the sum
\* of the costs of the categories not vetoed, the priors and the sum-to-one
\* term.
C30_VetoedAddsNothing ==
    [][ call'.op = "objective" =>
          /\ \A v \in Vetoed : \A s \in ChangedSelves(v) \cup {Self} :
                \A d \in ChangedData(call'.args.data, v) :
                   ReturnedOn(s, call'.args, d) = call'.ret
          /\ ~BetaOutOfRange(SubSeq(call'.args.params, 1, 4))
                => call'.ret = TotalOfNonVetoed(Self, call'.args) ]_vars

\* a call with data handed in on an instance with a vetoed category and
\* others, whose finite cost the fit of the vetoed category would have
\* changed
C30_Witness ==
    /\ call.op = "objective"
    /\ call.args.data # None
    /\ call.ret.k = "fin"
    /\ \E c \in DOMAIN model_data : c \notin veto_list
    /\ \E v \in Vetoed :
          /\ FitCost(Self, v, call.args).k = "fin"
          /\ FitCost(Self, v, call.args) # Zero
          /\ FitCost([Self EXCEPT !.model_data[v] = OtherTemplates(@)], v, call.args)
                # FitCost(Self, v, call.args)

====
